---- MODULE Spec2Model ----
(***************************************************************************)
(* Weather & Style Assistant: the conversation controller (handleSend,     *)
(* getWeatherResponse) and the outfit image job (handleGenerateOutfit and  *)
(* its pollStatus loop) of App.tsx, with the two proxy endpoints they talk *)
(* to (components/OutfitCard.tsx holds the server code).                   *)
(*                                                                         *)
(* Execution is single-threaded and event-driven: every action below is    *)
(* one run of a handler or of a continuation between two awaits.           *)
(***************************************************************************)
EXTENDS Integers, Sequences, FiniteSets, TLC

(***************************************************************************)
(* Bounds of the model.                                                    *)
(***************************************************************************)
MaxSends == 2       \* submissions of the user
MaxJobs == 2        \* presses of a "Generate Outfit" button
MaxTicks == 1       \* milliseconds that pass besides the waits for timers
MaxPending == 1     \* non-terminal status answers per job, interleaving runs
ChatSends == 2      \* submissions in the chat-only runs
EarlyPolls == 1     \* polls of the first job during which the second one runs

(***************************************************************************)
(* Program constants.                                                      *)
(***************************************************************************)
maxAttempts == 120
ReplyDelay == 1000      \* setTimeout(..., 1000) in handleSend
PollDelay == 5000       \* setTimeout(resolve, 5000) in pollStatus

(***************************************************************************)
(* JavaScript values.  An absent optional string is Undef; an absent       *)
(* optional object is the empty tuple and a present one a 1-tuple.         *)
(***************************************************************************)
Undef == "undefined"
None == <<>>
Some(v) == <<v>>

\* a || b on optional strings: undefined and "" are falsy
OrElse(a, b) == IF a = Undef \/ a = "" THEN b ELSE a

Max(a, b) == IF a >= b THEN a ELSE b
Range(f) == {f[x] : x \in DOMAIN f}

(***************************************************************************)
(* Message ids: "welcome", Date.now().toString(),                          *)
(* (Date.now() + 1).toString() and `generated-${Date.now()}`.  A decimal   *)
(* rendering is injective, so an id is its prefix and its number.          *)
(***************************************************************************)
WelcomeId == [pfx |-> "welcome", n |-> 0]
NumId(n) == [pfx |-> "", n |-> n]
GenId(n) == [pfx |-> "generated-", n |-> n]

Message(id, isUser, text) ==
    [id |-> id, isUser |-> isUser, text |-> text,
     weatherData |-> None, outfitData |-> None, comparisonData |-> None,
     generatedOutfit |-> None, demoMode |-> None]

WelcomeMessage == Message(WelcomeId, FALSE, "Hi! I'm your Weather & Style Assistant.")

(***************************************************************************)
(* JavaScript strings.  A string is a TLA+ string; s.slice, toLowerCase,   *)
(* trim and the replace(/literal/g, '') calls are computed character by    *)
(* character.  The utterances hold letters, digits, spaces, ? and ', so    *)
(* \s is a space and . is any character.                                   *)
(***************************************************************************)
UpperLetters == "ABCDEFGHIJKLMNOPQRSTUVWXYZ"
LowerLetters == "abcdefghijklmnopqrstuvwxyz"
Digits == "0123456789"

\* s.charAt(i - 1); "" outside the string
CharAt(s, i) == IF i >= 1 /\ i <= Len(s) THEN SubSeq(s, i, i) ELSE ""

\* s.slice(i - 1)
SliceFrom(s, i) == IF i > Len(s) THEN "" ELSE SubSeq(s, i, Len(s))

\* s.slice(i - 1, j)
Slice(s, i, j) == IF i > j THEN "" ELSE SubSeq(s, i, j)

IndexIn(alphabet, c) ==
    IF \E i \in 1 .. Len(alphabet) : SubSeq(alphabet, i, i) = c
    THEN CHOOSE i \in 1 .. Len(alphabet) : SubSeq(alphabet, i, i) = c
    ELSE 0

LowerChar(c) ==
    LET i == IndexIn(UpperLetters, c) IN IF i = 0 THEN c ELSE SubSeq(LowerLetters, i, i)

UpperChar(c) ==
    LET i == IndexIn(LowerLetters, c) IN IF i = 0 THEN c ELSE SubSeq(UpperLetters, i, i)

RECURSIVE ToLowerCase(_)
ToLowerCase(s) ==
    IF s = "" THEN "" ELSE LowerChar(SubSeq(s, 1, 1)) \o ToLowerCase(SliceFrom(s, 2))

IsSpace(c) == c = " "
IsLetter(c) == c # "" /\ (IndexIn(LowerLetters, c) > 0 \/ IndexIn(UpperLetters, c) > 0)
\* \w
IsWordChar(c) == IsLetter(c) \/ (c # "" /\ IndexIn(Digits, c) > 0) \/ c = "_"

\* the literal pat (lower case) stands at position i of s, whatever the case
At(s, i, pat) ==
    /\ i >= 1 /\ i + Len(pat) - 1 <= Len(s)
    /\ ToLowerCase(SubSeq(s, i, i + Len(pat) - 1)) = pat

\* \b at position i: between a word character and none
Boundary(s, i) == IsWordChar(CharAt(s, i - 1)) # IsWordChar(CharAt(s, i))

\* how many spaces stand at positions i, i + 1, ...
RECURSIVE SpacesAt(_, _)
SpacesAt(s, i) == IF IsSpace(CharAt(s, i)) THEN 1 + SpacesAt(s, i + 1) ELSE 0

\* s.replace(/pat/gi, ''): every occurrence, left to right, none overlapping
RECURSIVE Remove(_, _)
Remove(s, pat) ==
    IF s = "" THEN ""
    ELSE IF At(s, 1, pat) THEN Remove(SliceFrom(s, Len(pat) + 1), pat)
    ELSE SubSeq(s, 1, 1) \o Remove(SliceFrom(s, 2), pat)

\* s.replace(/\bpat\b/gi, ''): position i of s is scanned next
RECURSIVE RemoveWordFrom(_, _, _)
RemoveWordFrom(s, i, pat) ==
    IF i > Len(s) THEN ""
    ELSE IF At(s, i, pat) /\ Boundary(s, i) /\ Boundary(s, i + Len(pat))
    THEN RemoveWordFrom(s, i + Len(pat), pat)
    ELSE SubSeq(s, i, i) \o RemoveWordFrom(s, i + 1, pat)

RemoveWord(s, pat) == RemoveWordFrom(s, 1, pat)

\* the replace calls of a chain, in order
RECURSIVE RemoveAll(_, _)
RemoveAll(s, pats) ==
    IF pats = <<>> THEN s ELSE RemoveAll(Remove(s, Head(pats)), Tail(pats))

RECURSIVE RemoveAllWords(_, _)
RemoveAllWords(s, pats) ==
    IF pats = <<>> THEN s ELSE RemoveAllWords(RemoveWord(s, Head(pats)), Tail(pats))

\* s.trim()
RECURSIVE Trim(_)
Trim(s) ==
    IF s = "" THEN s
    ELSE IF SubSeq(s, 1, 1) = " " THEN Trim(SubSeq(s, 2, Len(s)))
    ELSE IF SubSeq(s, Len(s), Len(s)) = " " THEN Trim(SubSeq(s, 1, Len(s) - 1))
    ELSE s

(***************************************************************************)
(* The utterances the user submits.                                        *)
(***************************************************************************)
Utterances == {"   ", "weather in seattle", "weather for tomorrow", "compare Tokyo and Paris"}

\* the utterances of the runs that look at the intent extraction
IntentUtterances ==
    {"   ", "London", "tomorrow", "weather in Seattle", "weather for tomorrow",
     "what should I wear tomorrow", "What's the weather in Paris today?",
     "compare Tokyo and New York", "compare Rome versus Oslo", "compare Rome and Oslo vs Lima",
     "compare the and the", "Rome vs Oslo", "Rome versus Oslo", "Rome vs compare Oslo",
     "weather in Tokyo vs Paris", "Athens vs the weather in Rome?"}

\* !inputValue.trim()
IsBlank(u) == Trim(u) = ""

(***************************************************************************)
(* The regular expressions of getWeatherResponse.  match() finds the       *)
(* leftmost match; of the matches that start there the backtracking search  *)
(* finds first the one with the longest \s+ runs (greedy) and the shortest  *)
(* lazy group.  A match is [found, g1, g2]: match[1] and match[2].          *)
(***************************************************************************)
SetMin(S) == CHOOSE x \in S : \A y \in S : x <= y
SetMax(S) == CHOOSE x \in S : \A y \in S : x >= y

NoMatch == [found |-> FALSE, g1 |-> "", g2 |-> ""]

\* \s+(.+) read at position x of s, where r spaces stand: (.+) starts after
\* the spaces, of which the last is left to (.+) when nothing else follows;
\* 0 when there is no such reading
GroupAfterSpaces(s, x, r) ==
    IF x + r <= Len(s) THEN (IF r >= 1 THEN x + r ELSE 0)
    ELSE (IF r >= 2 THEN x + r - 1 ELSE 0)

\* (?:w1|w2|..)\s+(.+) read at position w of s: the alternatives that match
SeparatorWords(s, w, words) ==
    {k \in DOMAIN words :
        /\ At(s, w, words[k])
        /\ GroupAfterSpaces(s, w + Len(words[k]), SpacesAt(s, w + Len(words[k]))) > 0}

\* the reading by the first of the alternatives hit
SeparatorFirst(s, w, words, hit) ==
    IF hit = {} THEN 0
    ELSE GroupAfterSpaces(s, w + Len(words[SetMin(hit)]),
                          SpacesAt(s, w + Len(words[SetMin(hit)])))

\* \s+(?:w1|w2|..)\s+(.+) read at position e of s, where b spaces stand
SeparatorAfter(s, e, b, words) ==
    IF b = 0 THEN 0 ELSE SeparatorFirst(s, e + b, words, SeparatorWords(s, e + b, words))

\* \s+(?:w1|w2|..)\s+(.+) read at position e of s: where (.+) starts, or 0
SeparatorEnd(s, e, words) == SeparatorAfter(s, e, SpacesAt(s, e), words)

\* head\s+ read at position p of s: where (.+?) may start
ComparisonStarts(s, p, head) ==
    IF head = "" THEN {p}
    ELSE IF At(s, p, head)
    THEN {p + Len(head) + a : a \in 1 .. SpacesAt(s, p + Len(head))}
    ELSE {}

\* (.+?) starting at q: where the separator may start
ComparisonEnds(s, q, words) == {e \in (q + 1) .. Len(s) : SeparatorEnd(s, e, words) > 0}

\* the matches <<p, q, e>> of the pattern in s: the match starts at p, (.+?)
\* at q and the separator at e
ComparisonMatches(s, head, words) ==
    UNION {UNION {{<<p, q, e>> : e \in ComparisonEnds(s, q, words)} :
                     q \in ComparisonStarts(s, p, head)} : p \in 1 .. Len(s)}

\* the match the search finds first: the leftmost start, then the longest
\* run of \s+ before the lazy group, then the shortest lazy group
FirstMatch(matches) ==
    CHOOSE c \in matches :
        \A d \in matches :
            \/ c[1] < d[1]
            \/ c[1] = d[1] /\ c[2] > d[2]
            \/ c[1] = d[1] /\ c[2] = d[2] /\ c[3] <= d[3]

ComparisonGroups(s, c, words) ==
    [found |-> TRUE, g1 |-> Slice(s, c[2], c[3] - 1),
     g2 |-> SliceFrom(s, SeparatorEnd(s, c[3], words))]

ComparisonFirst(s, matches, words) ==
    IF matches = {} THEN NoMatch ELSE ComparisonGroups(s, FirstMatch(matches), words)

\* /head\s+(.+?)\s+(?:words)\s+(.+)/i, or /(.+?)\s+(?:words)\s+(.+)/i when
\* head is ""
ComparisonMatch(s, head, words) ==
    ComparisonFirst(s, ComparisonMatches(s, head, words), words)

\* const comparisonPatterns = [...]
comparisonPatterns ==
    << [head |-> "compare", words |-> <<"and", "vs", "versus">>],
       [head |-> "", words |-> <<"vs">>],
       [head |-> "", words |-> <<"versus">>] >>

TimeWords == {"today", "tomorrow", "tonight", "right now", "currently"}

\* how many characters of [a-z\s] (any case) stand at positions i, i + 1, ...
RECURSIVE LettersAt(_, _)
LettersAt(s, i) ==
    IF IsLetter(CharAt(s, i)) \/ IsSpace(CharAt(s, i)) THEN 1 + LettersAt(s, i + 1) ELSE 0

\* (?:\s+today|\s+tomorrow|\s+tonight|\s+right now|\s+currently|\s*\?|$) at e
Terminator(s, e) ==
    LET b == SpacesAt(s, e) IN
        \/ b >= 1 /\ \E w \in TimeWords : At(s, e + b, w)
        \/ CharAt(s, e + b) = "?"
        \/ e = Len(s) + 1

\* (?:in|for|at)\s+ read at position p of s: where the group may start
PrepositionStarts(s, p) ==
    UNION {IF At(s, p, h)
           THEN {p + Len(h) + a : a \in 1 .. SpacesAt(s, p + Len(h))}
           ELSE {} : h \in {"in", "for", "at"}}

\* ([a-z\s]+?) starting at q: where the terminator may start
PrepositionEnds(s, q) == {e \in (q + 1) .. (q + LettersAt(s, q)) : Terminator(s, e)}

PrepositionMatches(s) ==
    UNION {UNION {{<<p, q, e>> : e \in PrepositionEnds(s, q)} :
                     q \in PrepositionStarts(s, p)} : p \in 1 .. Len(s)}

PrepositionFirst(s, matches) ==
    IF matches = {} THEN NoMatch
    ELSE [found |-> TRUE,
          g1 |-> Slice(s, FirstMatch(matches)[2], FirstMatch(matches)[3] - 1),
          g2 |-> ""]

\* /(?:in|for|at)\s+([a-z\s]+?)(?:\s+today|...|\s*\?|$)/i
PrepositionMatch(s) == PrepositionFirst(s, PrepositionMatches(s))

(***************************************************************************)
(* The intent extraction at the head of getWeatherResponse.                *)
(***************************************************************************)
\* the cleanup of match[1] of a comparison
CleanCity1(g) ==
    Trim(RemoveAll(Trim(g), <<"compare", "weather in", "weather for", "weather", "the", "?">>))

\* the cleanup of match[2] of a comparison
CleanCity2(g) ==
    Trim(RemoveAll(Trim(g), <<"weather in", "weather for", "weather", "the", "?">>))

\* userMessage.toLowerCase().replace(/what's/gi, '')....trim()
CleanedMessage(u) ==
    Trim(RemoveAll(ToLowerCase(u),
            <<"what's", "what is", "the", "weather", "forecast", "wear", "should i",
              "today", "tomorrow", "tonight", "this week", "next week", "this month",
              "right now", "currently", "?">>))

DefaultLocation == "New York"

\* the final cleanup of the location
FinalCleanup(location) ==
    Trim(RemoveAllWords(location,
            <<"today", "tomorrow", "tonight", "right now", "currently", "this week",
              "next week", "this month", "forecast">>))

\* match[1].trim() of the preposition pattern, "" without a match
MatchedLocation(m) == IF m.found THEN Trim(m.g1) ELSE ""

\* if (!location) { ... if (cleanedMessage) location = cleanedMessage }
OrCleanedMessage(location, u) == IF location # "" THEN location ELSE CleanedMessage(u)

\* the location before the default is applied: match[1].trim() of the
\* preposition pattern or else the cleaned message
Candidate(u) == OrCleanedMessage(MatchedLocation(PrepositionMatch(u)), u)

\* if (!location) location = "New York"
OrDefault(location) == IF location = "" THEN DefaultLocation ELSE location

\* the location of the single-city path
Location(u) == FinalCleanup(OrDefault(Candidate(u)))

\* the patterns of comparisonPatterns that match u
Matching(u) ==
    {k \in DOMAIN comparisonPatterns :
        ComparisonMatch(u, comparisonPatterns[k].head, comparisonPatterns[k].words).found}

\* return { isComparison: true, city1, city2 } for match m of pattern k
Comparison(k, m) ==
    [kind |-> "compare", pattern |-> k, city1 |-> CleanCity1(m.g1), city2 |-> CleanCity2(m.g2)]

\* the answer of the loop when pattern k is the one that returns
ComparisonBy(u, k) ==
    Comparison(k, ComparisonMatch(u, comparisonPatterns[k].head, comparisonPatterns[k].words))

SingleCity(u) == [kind |-> "single", pattern |-> 0, city1 |-> Location(u), city2 |-> ""]

\* the loop taking the last matching pattern instead of the first
IntentLast(u, matching) ==
    IF matching # {} THEN ComparisonBy(u, SetMax(matching)) ELSE SingleCity(u)

IntentLastPattern(u) == IntentLast(u, Matching(u))

\* the loop over the patterns, of which those of matching match
IntentFirst(u, matching) ==
    IF matching # {} THEN ComparisonBy(u, SetMin(matching)) ELSE SingleCity(u)

\* for (const pattern of comparisonPatterns) { ... return } then the
\* single-city path: pattern is the index of the pattern that matched
Intent(u) == IntentFirst(u, Matching(u))

\* what the extraction makes of each utterance the user submits
IntentOf == [u \in Utterances \cup IntentUtterances |-> Intent(u)]

\* a.includes(b)
Includes(a, b) ==
    \/ b = ""
    \/ \E i \in 1 .. (Len(a) - Len(b) + 1) : SubSeq(a, i, i + Len(b) - 1) = b

\* location.charAt(0).toUpperCase() + location.slice(1)
Capitalize(location) == UpperChar(CharAt(location, 1)) \o SliceFrom(location, 2)

(***************************************************************************)
(* generateOutfitRecommendation on the server.  Temperatures and wind      *)
(* speeds are numbers of tenths (of a degree, of a metre per second), the  *)
(* humidity is a number of percent.  The pictographs that open the texts   *)
(* added to the note are left out of the strings.                          *)
(***************************************************************************)
ExtremeCold ==
    [note |-> "Freezing temperatures require heavy insulation and layering.",
     variations |-> <<
       [style |-> "Winter Essential",
        items |-> <<
              [name |-> "Heavy Puffer Coat", query |-> "black puffer jacket down coat"],
              [name |-> "Thermal Base Layer", query |-> "merino wool thermal shirt"],
              [name |-> "Insulated Boots", query |-> "snow boots waterproof"],
              [name |-> "Wool Scarf & Gloves", query |-> "wool scarf knit gloves set"] >>],
       [style |-> "Urban Winter",
        items |-> <<
              [name |-> "Winter Jacket", query |-> "navy blue winter parka"],
              [name |-> "Warm Sweater", query |-> "cable knit sweater beige"],
              [name |-> "Snow Boots", query |-> "leather winter boots brown"],
              [name |-> "Beanie & Mittens", query |-> "beanie hat winter mittens"] >>],
       [style |-> "Classic Cold Weather",
        items |-> <<
              [name |-> "Long Winter Coat", query |-> "long wool coat gray"],
              [name |-> "Layered Clothing", query |-> "turtleneck sweater black"],
              [name |-> "Leather Boots", query |-> "leather ankle boots black"],
              [name |-> "Knit Scarf Set", query |-> "cashmere scarf winter"] >>] >>]

Cold ==
    [note |-> "Cold weather calls for warm layers and comfortable outerwear.",
     variations |-> <<
       [style |-> "Casual Cool",
        items |-> <<
              [name |-> "Denim Jacket", query |-> "blue denim jacket classic"],
              [name |-> "Knit Sweater", query |-> "cream knit sweater cozy"],
              [name |-> "Ankle Boots", query |-> "suede ankle boots tan"],
              [name |-> "Warm Scarf", query |-> "plaid scarf wool"] >>],
       [style |-> "Modern Edge",
        items |-> <<
              [name |-> "Bomber Jacket", query |-> "black bomber jacket leather"],
              [name |-> "Turtleneck", query |-> "gray turtleneck sweater"],
              [name |-> "Chelsea Boots", query |-> "black chelsea boots leather"],
              [name |-> "Light Scarf", query |-> "minimalist scarf black"] >>],
       [style |-> "Timeless Chic",
        items |-> <<
              [name |-> "Wool Coat", query |-> "tan beige wool overcoat jacket"],
              [name |-> "Pullover Sweater", query |-> "burgundy knit pullover sweater crewneck"],
              [name |-> "Leather Boots", query |-> "brown leather boots vintage"],
              [name |-> "Knit Scarf", query |-> "chunky knit scarf beige"] >>] >>]

MildCool ==
    [note |-> "Cool and pleasant - light layers work best.",
     variations |-> <<
       [style |-> "Smart Casual",
        items |-> <<
              [name |-> "Light Jacket", query |-> "khaki field jacket spring"],
              [name |-> "Long Sleeve Shirt", query |-> "white oxford shirt cotton"],
              [name |-> "Sneakers", query |-> "white leather sneakers clean"] >>],
       [style |-> "Relaxed Comfort",
        items |-> <<
              [name |-> "Cardigan", query |-> "navy cardigan sweater knitwear menswear"],
              [name |-> "Polo Shirt", query |-> "striped polo shirt casual"],
              [name |-> "Casual Loafers", query |-> "brown suede loafers"] >>],
       [style |-> "Active Ready",
        items |-> <<
              [name |-> "Windbreaker", query |-> "windbreaker jacket sports apparel clothing"],
              [name |-> "Henley Shirt", query |-> "gray henley shirt long sleeve"],
              [name |-> "Running Shoes", query |-> "running shoes athletic colorful"] >>] >>]

Comfortable ==
    [note |-> "Comfortable temperature - perfect for light, casual wear.",
     variations |-> <<
       [style |-> "Everyday Casual",
        items |-> <<
              [name |-> "Cotton T-Shirt", query |-> "white cotton tshirt mens fashion"],
              [name |-> "Light Cardigan", query |-> "cardigan sweater mens fashion knitwear"],
              [name |-> "Sneakers", query |-> "white canvas sneakers footwear"] >>],
       [style |-> "Business Casual",
        items |-> <<
              [name |-> "Polo Shirt", query |-> "navy polo shirt menswear"],
              [name |-> "Chinos", query |-> "beige chino pants menswear"],
              [name |-> "Oxford Shoes", query |-> "brown leather oxford shoes footwear"] >>],
       [style |-> "Streetwear Vibe",
        items |-> <<
              [name |-> "Graphic Tee", query |-> "black tshirt streetwear fashion"],
              [name |-> "Hoodie", query |-> "grey hoodie streetwear"],
              [name |-> "White Sneakers", query |-> "white sneakers street fashion"] >>] >>]

Warm ==
    [note |-> "Warm weather - light, breathable clothing recommended.",
     variations |-> <<
       [style |-> "Summer Breeze",
        items |-> <<
              [name |-> "Light Cotton Tee", query |-> "blue cotton tshirt mens summer fashion"],
              [name |-> "Shorts", query |-> "navy shorts mens casual wear"],
              [name |-> "Slide Sandals", query |-> "leather sandals mens footwear"],
              [name |-> "Sunglasses", query |-> "aviator sunglasses accessory"] >>],
       [style |-> "Beach Ready",
        items |-> <<
              [name |-> "Tank Top", query |-> "white tank top mens athletic wear"],
              [name |-> "Denim Shorts", query |-> "denim shorts mens casual"],
              [name |-> "Flip Flops", query |-> "flip flops mens beach footwear"],
              [name |-> "Aviator Sunglasses", query |-> "sunglasses mens accessory"] >>],
       [style |-> "Resort Casual",
        items |-> <<
              [name |-> "Linen Shirt", query |-> "beige linen shirt mens summer wear"],
              [name |-> "Light Pants", query |-> "linen pants mens white"],
              [name |-> "Canvas Sneakers", query |-> "canvas sneakers white footwear"],
              [name |-> "Shades", query |-> "sunglasses mens fashion accessory"] >>] >>]

Hot ==
    [note |-> "Very hot - stay cool with minimal, moisture-wicking fabrics.",
     variations |-> <<
       [style |-> "Heat Wave",
        items |-> <<
              [name |-> "Breathable Tank", query |-> "mesh tank top athletic black"],
              [name |-> "Athletic Shorts", query |-> "performance shorts athletic gray"],
              [name |-> "Sport Sandals", query |-> "sport sandals outdoor black"],
              [name |-> "Wide Brim Hat", query |-> "straw sun hat wide brim"] >>],
       [style |-> "Tropical Vibes",
        items |-> <<
              [name |-> "Light Tank Top", query |-> "colorful tank top tropical print"],
              [name |-> "Swim Shorts", query |-> "swim trunks tropical pattern"],
              [name |-> "Beach Sandals", query |-> "flip flops beach colorful"],
              [name |-> "Baseball Cap", query |-> "baseball cap summer white"] >>],
       [style |-> "Desert Cool",
        items |-> <<
              [name |-> "Moisture-Wicking Top", query |-> "technical tshirt outdoor beige"],
              [name |-> "Light Clothing", query |-> "cargo shorts outdoor khaki"],
              [name |-> "Open Sandals", query |-> "hiking sandals outdoor brown"],
              [name |-> "Bucket Hat", query |-> "bucket hat outdoor navy"] >>] >>]

\* Math.round of a number of tenths
Round(tenths) == (tenths + 5) \div 10

Umbrella == [name |-> "Umbrella", query |-> "umbrella rain"]
SnowGear == [name |-> "Snow Gear", query |-> "snow gear"]

\* the branches taken with <= in the place of <
outfitVariationsInclusive(temp) ==
    IF temp <= 0 THEN ExtremeCold
    ELSE IF temp <= 100 THEN Cold
    ELSE IF temp <= 180 THEN MildCool
    ELSE IF temp <= 250 THEN Comfortable
    ELSE IF temp <= 300 THEN Warm
    ELSE Hot

\* if (temp < 0) ... else if (temp < 10) ... else: the variations and the note
outfitVariations(temp) ==
    IF temp < 0 THEN ExtremeCold
    ELSE IF temp < 100 THEN Cold
    ELSE IF temp < 180 THEN MildCool
    ELSE IF temp < 250 THEN Comfortable
    ELSE IF temp < 300 THEN Warm
    ELSE Hot

\* the item added to the first variation only
AppendItemFirstOnly(variations, item) ==
    [i \in DOMAIN variations |->
        IF i = 1 THEN [variations[i] EXCEPT !.items = Append(@, item)] ELSE variations[i]]

\* outfitVariations.map(variation => ({...variation, items: [...variation.items, item]}))
AppendItem(variations, item) ==
    [i \in DOMAIN variations |-> [variations[i] EXCEPT !.items = Append(@, item)]]

\* the recommendation with the wind note from 8 m/s on and the humidity note
\* from 80 percent on
generateOutfitRecommendationInclusive(weatherData) ==
    LET temp == weatherData.temp
        condition == ToLowerCase(weatherData.main)
        rain == Includes(condition, "rain") \/ Includes(condition, "drizzle")
        snow == Includes(condition, "snow")
        band == outfitVariations(temp)
        withRain == IF rain THEN AppendItem(band.variations, Umbrella) ELSE band.variations
        withSnow == IF snow THEN AppendItem(withRain, SnowGear) ELSE withRain
    IN [summary |-> "For " \o ToString(Round(temp)) \o "°C (feels like "
                        \o ToString(Round(weatherData.feels_like)) \o "°C) with "
                        \o weatherData.description,
        note |-> band.note
                    \o (IF rain THEN "Rain expected! " ELSE "")
                    \o (IF snow THEN "Snowy weather! " ELSE "")
                    \o (IF weatherData.speed >= 80 THEN "Windy conditions! " ELSE "")
                    \o (IF weatherData.humidity >= 80 /\ temp > 200
                        THEN "High humidity - choose breathable fabrics! " ELSE ""),
        variations |-> withSnow]

generateOutfitRecommendation(weatherData) ==
    LET temp == weatherData.temp
        condition == ToLowerCase(weatherData.main)
        rain == Includes(condition, "rain") \/ Includes(condition, "drizzle")
        snow == Includes(condition, "snow")
        band == outfitVariations(temp)
        withRain == IF rain THEN AppendItem(band.variations, Umbrella) ELSE band.variations
        withSnow == IF snow THEN AppendItem(withRain, SnowGear) ELSE withRain
    IN [summary |-> "For " \o ToString(Round(temp)) \o "°C (feels like "
                        \o ToString(Round(weatherData.feels_like)) \o "°C) with "
                        \o weatherData.description,
        note |-> band.note
                    \o (IF rain THEN "Rain expected! " ELSE "")
                    \o (IF snow THEN "Snowy weather! " ELSE "")
                    \o (IF weatherData.speed > 80 THEN "Windy conditions! " ELSE "")
                    \o (IF weatherData.humidity > 80 /\ temp > 200
                        THEN "High humidity - choose breathable fabrics! " ELSE ""),
        variations |-> withSnow]

(***************************************************************************)
(* generateMockWeather on the server.                                      *)
(***************************************************************************)
cityProfiles ==
    << [city |-> "london", temp |-> 140, feels |-> 120, humidity |-> 72, wind |-> 42,
        condition |-> "Clouds", desc |-> "broken clouds", country |-> "GB"],
       [city |-> "paris", temp |-> 160, feels |-> 150, humidity |-> 68, wind |-> 38,
        condition |-> "Clear", desc |-> "clear sky", country |-> "FR"],
       [city |-> "berlin", temp |-> 130, feels |-> 110, humidity |-> 70, wind |-> 45,
        condition |-> "Clouds", desc |-> "overcast clouds", country |-> "DE"],
       [city |-> "amsterdam", temp |-> 120, feels |-> 100, humidity |-> 78, wind |-> 52,
        condition |-> "Rain", desc |-> "light rain", country |-> "NL"],
       [city |-> "rome", temp |-> 210, feels |-> 200, humidity |-> 62, wind |-> 28,
        condition |-> "Clear", desc |-> "clear sky", country |-> "IT"],
       [city |-> "madrid", temp |-> 190, feels |-> 180, humidity |-> 55, wind |-> 32,
        condition |-> "Clear", desc |-> "few clouds", country |-> "ES"],
       [city |-> "barcelona", temp |-> 200, feels |-> 190, humidity |-> 65, wind |-> 35,
        condition |-> "Clear", desc |-> "clear sky", country |-> "ES"],
       [city |-> "moscow", temp |-> -20, feels |-> -60, humidity |-> 85, wind |-> 55,
        condition |-> "Snow", desc |-> "light snow", country |-> "RU"],
       [city |-> "oslo", temp |-> 30, feels |-> -10, humidity |-> 75, wind |-> 60,
        condition |-> "Clouds", desc |-> "overcast clouds", country |-> "NO"],
       [city |-> "stockholm", temp |-> 50, feels |-> 20, humidity |-> 72, wind |-> 48,
        condition |-> "Clouds", desc |-> "scattered clouds", country |-> "SE"],
       [city |-> "helsinki", temp |-> 10, feels |-> -30, humidity |-> 80, wind |-> 52,
        condition |-> "Snow", desc |-> "light snow", country |-> "FI"],
       [city |-> "reykjavik", temp |-> 40, feels |-> 0, humidity |-> 82, wind |-> 75,
        condition |-> "Rain", desc |-> "light rain", country |-> "IS"],
       [city |-> "tokyo", temp |-> 220, feels |-> 230, humidity |-> 68, wind |-> 35,
        condition |-> "Clear", desc |-> "clear sky", country |-> "JP"],
       [city |-> "beijing", temp |-> 180, feels |-> 170, humidity |-> 45, wind |-> 42,
        condition |-> "Clear", desc |-> "few clouds", country |-> "CN"],
       [city |-> "shanghai", temp |-> 240, feels |-> 250, humidity |-> 75, wind |-> 38,
        condition |-> "Clouds", desc |-> "scattered clouds", country |-> "CN"],
       [city |-> "singapore", temp |-> 310, feels |-> 360, humidity |-> 85, wind |-> 25,
        condition |-> "Rain", desc |-> "light rain", country |-> "SG"],
       [city |-> "bangkok", temp |-> 330, feels |-> 380, humidity |-> 80, wind |-> 22,
        condition |-> "Clear", desc |-> "clear sky", country |-> "TH"],
       [city |-> "mumbai", temp |-> 320, feels |-> 370, humidity |-> 82, wind |-> 38,
        condition |-> "Clouds", desc |-> "scattered clouds", country |-> "IN"],
       [city |-> "delhi", temp |-> 280, feels |-> 300, humidity |-> 60, wind |-> 40,
        condition |-> "Clear", desc |-> "haze", country |-> "IN"],
       [city |-> "seoul", temp |-> 170, feels |-> 160, humidity |-> 65, wind |-> 35,
        condition |-> "Clear", desc |-> "clear sky", country |-> "KR"],
       [city |-> "hong kong", temp |-> 270, feels |-> 290, humidity |-> 78, wind |-> 32,
        condition |-> "Clouds", desc |-> "few clouds", country |-> "HK"],
       [city |-> "dubai", temp |-> 380, feels |-> 420, humidity |-> 55, wind |-> 45,
        condition |-> "Clear", desc |-> "clear sky", country |-> "AE"],
       [city |-> "riyadh", temp |-> 350, feels |-> 370, humidity |-> 25, wind |-> 50,
        condition |-> "Clear", desc |-> "clear sky", country |-> "SA"],
       [city |-> "cairo", temp |-> 300, feels |-> 320, humidity |-> 40, wind |-> 42,
        condition |-> "Clear", desc |-> "clear sky", country |-> "EG"],
       [city |-> "new york", temp |-> 180, feels |-> 170, humidity |-> 65, wind |-> 48,
        condition |-> "Clouds", desc |-> "scattered clouds", country |-> "US"],
       [city |-> "los angeles", temp |-> 240, feels |-> 230, humidity |-> 58, wind |-> 32,
        condition |-> "Clear", desc |-> "clear sky", country |-> "US"],
       [city |-> "chicago", temp |-> 150, feels |-> 130, humidity |-> 70, wind |-> 55,
        condition |-> "Clouds", desc |-> "broken clouds", country |-> "US"],
       [city |-> "miami", temp |-> 300, feels |-> 340, humidity |-> 78, wind |-> 40,
        condition |-> "Clear", desc |-> "few clouds", country |-> "US"],
       [city |-> "san francisco", temp |-> 170, feels |-> 160, humidity |-> 75, wind |-> 52,
        condition |-> "Clouds", desc |-> "fog", country |-> "US"],
       [city |-> "seattle", temp |-> 140, feels |-> 130, humidity |-> 80, wind |-> 38,
        condition |-> "Rain", desc |-> "light rain", country |-> "US"],
       [city |-> "toronto", temp |-> 160, feels |-> 140, humidity |-> 68, wind |-> 45,
        condition |-> "Clouds", desc |-> "overcast clouds", country |-> "CA"],
       [city |-> "vancouver", temp |-> 150, feels |-> 140, humidity |-> 78, wind |-> 35,
        condition |-> "Rain", desc |-> "moderate rain", country |-> "CA"],
       [city |-> "calgary", temp |-> 80, feels |-> 40, humidity |-> 55, wind |-> 58,
        condition |-> "Clouds", desc |-> "scattered clouds", country |-> "CA"],
       [city |-> "mexico city", temp |-> 220, feels |-> 210, humidity |-> 55, wind |-> 28,
        condition |-> "Clear", desc |-> "clear sky", country |-> "MX"],
       [city |-> "buenos aires", temp |-> 200, feels |-> 190, humidity |-> 72, wind |-> 42,
        condition |-> "Clear", desc |-> "clear sky", country |-> "AR"],
       [city |-> "rio de janeiro", temp |-> 280, feels |-> 300, humidity |-> 75, wind |-> 35,
        condition |-> "Clear", desc |-> "few clouds", country |-> "BR"],
       [city |-> "sao paulo", temp |-> 230, feels |-> 220, humidity |-> 68, wind |-> 30,
        condition |-> "Clouds", desc |-> "scattered clouds", country |-> "BR"],
       [city |-> "lima", temp |-> 210, feels |-> 200, humidity |-> 78, wind |-> 38,
        condition |-> "Clouds", desc |-> "overcast clouds", country |-> "PE"],
       [city |-> "sydney", temp |-> 220, feels |-> 210, humidity |-> 65, wind |-> 45,
        condition |-> "Clear", desc |-> "clear sky", country |-> "AU"],
       [city |-> "melbourne", temp |-> 180, feels |-> 170, humidity |-> 68, wind |-> 50,
        condition |-> "Clouds", desc |-> "scattered clouds", country |-> "AU"],
       [city |-> "auckland", temp |-> 170, feels |-> 160, humidity |-> 75, wind |-> 48,
        condition |-> "Clouds", desc |-> "broken clouds", country |-> "NZ"],
       [city |-> "cape town", temp |-> 190, feels |-> 180, humidity |-> 70, wind |-> 55,
        condition |-> "Clear", desc |-> "clear sky", country |-> "ZA"],
       [city |-> "nairobi", temp |-> 240, feels |-> 230, humidity |-> 62, wind |-> 35,
        condition |-> "Clear", desc |-> "few clouds", country |-> "KE"] >>

\* char.charCodeAt(0), for the characters a location is made of
CharCode(c) ==
    IF c = " " THEN 32
    ELSE IF c = "'" THEN 39
    ELSE IF c = "?" THEN 63
    ELSE IF IndexIn(Digits, c) > 0 THEN 47 + IndexIn(Digits, c)
    ELSE IF IndexIn(UpperLetters, c) > 0 THEN 64 + IndexIn(UpperLetters, c)
    ELSE 96 + IndexIn(LowerLetters, c)

\* location.split('').reduce((acc, char) => acc + char.charCodeAt(0), 0)
RECURSIVE Seed(_)
Seed(location) ==
    IF location = "" THEN 0
    ELSE CharCode(CharAt(location, 1)) + Seed(SliceFrom(location, 2))

Min(a, b) == IF a <= b THEN a ELSE b

\* the profile of the first listed city the location contains;
\* without one, the profile derived from the seed
Profile(location) ==
    LET locationLower == ToLowerCase(location)
        found == {i \in DOMAIN cityProfiles : Includes(locationLower, cityProfiles[i].city)}
        seed == Seed(location)
        tempBase == 15 + (seed % 20)
        variation == (seed % 10) - 5
    IN IF found # {} THEN cityProfiles[SetMin(found)]
       ELSE [city |-> locationLower,
             temp |-> 10 * (tempBase + variation),
             feels |-> 10 * (tempBase + variation + ((seed % 6) - 3)),
             humidity |-> 50 + (seed % 40),
             wind |-> 10 * (2 + (seed % 5)),
             condition |-> <<"Clear", "Clouds", "Rain">>[(seed % 3) + 1],
             desc |-> <<"clear sky", "scattered clouds", "light rain">>[(seed % 3) + 1],
             country |-> "XX"]

\* the four variations drawn with Math.random(): temperature and feels-like
\* in tenths from -3 and -4 degrees up to, not including, +3 and +4; the
\* humidity from -15 up to +15 percent; the wind in tenths from -2 up to +2
Randoms ==
    [temp : {-30, 0, 29}, feels : {-40, 0, 39}, humidity : {-15, 0, 14}, wind : {-20, 0, 19}]

\* Math.random() yielding 0.5 four times
NoVariation == [temp |-> 0, feels |-> 0, humidity |-> 0, wind |-> 0]

generateMockWeather(location, random) ==
    LET profile == Profile(location) IN
        [name |-> Capitalize(location),
         country |-> profile.country,
         temp |-> profile.temp + random.temp,
         feels_like |-> profile.feels + random.feels,
         humidity |-> Max(30, Min(100, profile.humidity + random.humidity)),
         main |-> profile.condition,
         description |-> profile.desc,
         speed |-> Max(5, profile.wind + random.wind)]

(***************************************************************************)
(* POST /weather on the server.  up is what the call of the weather        *)
(* provider comes to:                                                      *)
(*   "nokey"        no OPENWEATHER_API_KEY, no call                        *)
(*   "ok"           an OK answer carrying weatherData                      *)
(*   "badbody"      an OK answer whose body cannot be used                 *)
(*   "401"          status 401                                             *)
(*   "error"        another non-OK status, with a JSON body                *)
(*   "errorgarbled" another non-OK status, the body not JSON               *)
(*   "netfail"      the fetch throws                                       *)
(***************************************************************************)
Upstreams == {"nokey", "ok", "401", "error", "netfail"}
AllUpstreams == Upstreams \cup {"badbody", "errorgarbled"}

\* errorData.message of the upstream's answer
UpstreamMessage(up) == IF up = "error" THEN "city not found" ELSE Undef

\* the weather part of the answer
WeatherOf(weatherData) ==
    [location |-> weatherData.name,
     country |-> weatherData.country,
     temperature |-> Round(weatherData.temp),
     feelsLike |-> Round(weatherData.feels_like),
     condition |-> weatherData.main,
     description |-> weatherData.description,
     humidity |-> weatherData.humidity,
     windSpeed |-> weatherData.speed]

WeatherFailure(error) ==
    [ok |-> FALSE, error |-> error,
     weather |-> None, outfit |-> None, demoMode |-> None, demoReason |-> Undef]

\* a failed call of the provider answered as a failure whatever its status
WeatherHandlerStrict(location, up, weatherData, random) ==
    IF location = "" THEN WeatherFailure("Location is required")
    ELSE IF up = "ok"
    THEN [ok |-> TRUE, error |-> Undef,
          weather |-> Some(WeatherOf(weatherData)),
          outfit |-> Some(generateOutfitRecommendation(weatherData)),
          demoMode |-> Some(FALSE), demoReason |-> Undef]
    ELSE IF up \in {"error", "401", "netfail"}
    THEN WeatherFailure(OrElse(UpstreamMessage(up), "Failed to fetch weather data"))
    ELSE [ok |-> TRUE, error |-> Undef,
          weather |-> Some(WeatherOf(generateMockWeather(location, random))),
          outfit |-> Some(generateOutfitRecommendation(generateMockWeather(location, random))),
          demoMode |-> Some(TRUE),
          demoReason |-> "No API key found in environment variables"]

\* the handler, given the provider's answer and the draws of Math.random()
WeatherHandler(location, up, weatherData, random) ==
    IF location = "" THEN WeatherFailure("Location is required")
    ELSE IF up = "ok"
    THEN [ok |-> TRUE, error |-> Undef,
          weather |-> Some(WeatherOf(weatherData)),
          outfit |-> Some(generateOutfitRecommendation(weatherData)),
          demoMode |-> Some(FALSE), demoReason |-> Undef]
    ELSE IF up = "error"
    THEN WeatherFailure(OrElse(UpstreamMessage(up), "Failed to fetch weather data"))
    ELSE [ok |-> TRUE, error |-> Undef,
          weather |-> Some(WeatherOf(generateMockWeather(location, random))),
          outfit |-> Some(generateOutfitRecommendation(generateMockWeather(location, random))),
          demoMode |-> Some(TRUE),
          demoReason |-> IF up = "nokey"
                         THEN "No API key found in environment variables"
                         ELSE "API key exists but returned 401 (likely not activated yet - takes 1-2 hours for new OpenWeatherMap accounts)"]

\* an answer of the weather provider for the location
UpstreamData(location) ==
    [name |-> Capitalize(location), country |-> "US",
     temp |-> 183, feels_like |-> 171, humidity |-> 64,
     main |-> "Clouds", description |-> "broken clouds", speed |-> 36]

WeatherEndpoint(location, up) ==
    WeatherHandler(location, up, UpstreamData(location), NoVariation)

\* what the client's fetch of /weather and the reading of its body yield:
\* the endpoint's answer; or, with up = "throw", a rejected fetch and, with
\* up = "garbled", an OK answer whose body is not JSON: response.json()
\* throws.  Both are marked thrown.
FetchThrows == [thrown |-> TRUE, ok |-> FALSE, error |-> Undef,
                weather |-> None, outfit |-> None, demoMode |-> None, demoReason |-> Undef]

WeatherFetch(location, up) ==
    IF up = "throw" THEN FetchThrows
    ELSE IF up = "garbled" THEN [FetchThrows EXCEPT !.ok = TRUE]
    ELSE [thrown |-> FALSE] @@ WeatherEndpoint(location, up)

Fetches == Upstreams \cup {"throw", "garbled"}

\* the locations the utterances lead to, and the answers to their fetches
Locations == UNION {{intent.city1, intent.city2} : intent \in Range(IntentOf)}
WeatherFetchOf == [location \in Locations |-> [up \in Fetches |-> WeatherFetch(location, up)]]

(***************************************************************************)
(* fetchUnsplashImage on the client.  imageCache lists the entries in the  *)
(* order of the object literal (the order of Object.keys); of each URL the *)
(* photo is kept and the rendering parameters are left out.                *)
(***************************************************************************)
imageCache ==
    << [key |-> "black puffer jacket down coat",
        url |-> "https://images.unsplash.com/photo-1521681867701-9962f648c1b6"],
       [key |-> "merino wool thermal shirt",
        url |-> "https://images.unsplash.com/photo-1673168869484-dce7ec2d0499"],
       [key |-> "snow boots waterproof",
        url |-> "https://images.unsplash.com/photo-1690702692894-110f6e88c390"],
       [key |-> "wool scarf knit gloves set",
        url |-> "https://images.unsplash.com/photo-1639654827521-cb4f5edf8675"],
       [key |-> "navy blue winter parka",
        url |-> "https://images.unsplash.com/photo-1610636359791-bdac02d318b5"],
       [key |-> "cable knit sweater beige",
        url |-> "https://images.unsplash.com/photo-1758537698215-af1e35acb911"],
       [key |-> "leather winter boots brown",
        url |-> "https://images.unsplash.com/photo-1639270602419-6392f0723174"],
       [key |-> "beanie hat winter mittens",
        url |-> "https://images.unsplash.com/photo-1740381698754-3920d7407365"],
       [key |-> "long wool coat gray",
        url |-> "https://images.unsplash.com/photo-1608227611229-4f8d1d5339b6"],
       [key |-> "turtleneck sweater black",
        url |-> "https://images.unsplash.com/photo-1591470481729-2bcc11e3acb8"],
       [key |-> "leather ankle boots black",
        url |-> "https://images.unsplash.com/photo-1571489555750-c932b569ef5d"],
       [key |-> "cashmere scarf winter",
        url |-> "https://images.unsplash.com/photo-1551381912-4e2e29c7fd17"],
       [key |-> "blue denim jacket classic",
        url |-> "https://images.unsplash.com/photo-1580644228275-2b826dbec5bf"],
       [key |-> "cream knit sweater cozy",
        url |-> "https://images.unsplash.com/photo-1603906650843-b58e94d9df4d"],
       [key |-> "suede ankle boots tan",
        url |-> "https://images.unsplash.com/photo-1761052720710-32349209f6b4"],
       [key |-> "plaid scarf wool",
        url |-> "https://images.unsplash.com/photo-1609803384069-19f3e5a70e75"],
       [key |-> "black bomber jacket leather",
        url |-> "https://images.unsplash.com/photo-1635588773098-7b365495e2f1"],
       [key |-> "gray turtleneck sweater",
        url |-> "https://images.unsplash.com/photo-1603906650843-b58e94d9df4d"],
       [key |-> "black chelsea boots leather",
        url |-> "https://images.unsplash.com/photo-1608629601270-a0007becead3"],
       [key |-> "minimalist scarf black",
        url |-> "https://images.unsplash.com/photo-1644483518975-1a74bff3ab94"],
       [key |-> "tan beige wool overcoat jacket",
        url |-> "https://images.unsplash.com/photo-1539533018447-63fcce2678e3"],
       [key |-> "burgundy knit pullover sweater crewneck",
        url |-> "https://images.unsplash.com/photo-1620799140188-3b2a02fd9a77"],
       [key |-> "brown leather boots vintage",
        url |-> "https://images.unsplash.com/photo-1638158980051-f7e67291efed"],
       [key |-> "chunky knit scarf beige",
        url |-> "https://images.unsplash.com/photo-1670080589800-6416c8ce8a14"],
       [key |-> "khaki field jacket spring",
        url |-> "https://images.unsplash.com/photo-1650594506500-c87c4c82bb43"],
       [key |-> "white oxford shirt cotton",
        url |-> "https://images.unsplash.com/photo-1644860588182-0998b4ef5587"],
       [key |-> "white leather sneakers clean",
        url |-> "https://images.unsplash.com/photo-1722489291778-cb2a414d6ee0"],
       [key |-> "navy cardigan button front",
        url |-> "https://images.unsplash.com/photo-1758981400268-1181291b9503"],
       [key |-> "striped polo shirt casual",
        url |-> "https://images.unsplash.com/photo-1760287363713-a864ca9b1b1f"],
       [key |-> "brown suede loafers",
        url |-> "https://images.unsplash.com/photo-1664095885197-fdff6611560c"],
       [key |-> "blue windbreaker jacket athletic",
        url |-> "https://images.unsplash.com/photo-1548126032-079a0fb0099d"],
       [key |-> "gray henley shirt long sleeve",
        url |-> "https://images.unsplash.com/photo-1693443688057-85f57b872a3c"],
       [key |-> "running shoes athletic colorful",
        url |-> "https://images.unsplash.com/photo-1739132268718-53d64165d29a"],
       [key |-> "plain white tshirt cotton",
        url |-> "https://images.unsplash.com/photo-1644860588182-0998b4ef5587"],
       [key |-> "gray cardigan lightweight spring",
        url |-> "https://images.unsplash.com/photo-1611780748105-42c40cdc8eae"],
       [key |-> "canvas sneakers blue casual",
        url |-> "https://images.unsplash.com/photo-1758443909732-2c4201e5b590"],
       [key |-> "navy polo shirt classic",
        url |-> "https://images.unsplash.com/photo-1692195400719-81a66b4fde89"],
       [key |-> "beige chino pants casual",
        url |-> "https://images.unsplash.com/photo-1756009531697-51da316bfa3a"],
       [key |-> "leather oxford shoes brown",
        url |-> "https://images.unsplash.com/photo-1616663308968-58162d332720"],
       [key |-> "graphic tshirt black streetwear",
        url |-> "https://images.unsplash.com/photo-1662103627854-ae7551d1eddb"],
       [key |-> "oversized hoodie gray urban",
        url |-> "https://images.unsplash.com/photo-1580159851546-833dd8f26318"],
       [key |-> "high top sneakers white street",
        url |-> "https://images.unsplash.com/photo-1759527588071-e143b4a451b0"],
       [key |-> "light blue tshirt cotton summer",
        url |-> "https://images.unsplash.com/photo-1680469975417-a7e5b6ad0784"],
       [key |-> "navy blue shorts casual summer",
        url |-> "https://images.unsplash.com/photo-1624378439140-20d221f1b36d"],
       [key |-> "leather slide sandals brown",
        url |-> "https://images.unsplash.com/photo-1663693586817-f7e0ceb27bd7"],
       [key |-> "aviator sunglasses gold",
        url |-> "https://images.unsplash.com/photo-1732139637229-4be95d41cce8"],
       [key |-> "white tank top athletic summer",
        url |-> "https://images.unsplash.com/photo-1759365485726-cfe4166bbfe7"],
       [key |-> "light wash denim shorts",
        url |-> "https://images.unsplash.com/photo-1620231619471-b28081fc3509"],
       [key |-> "rubber flip flops beach black",
        url |-> "https://images.unsplash.com/photo-1760612887190-ea94041f1920"],
       [key |-> "classic aviator sunglasses silver",
        url |-> "https://images.unsplash.com/photo-1589782182703-2aaa69037b5b"],
       [key |-> "beige linen shirt short sleeve",
        url |-> "https://images.unsplash.com/photo-1651895884377-5f631be84282"],
       [key |-> "white linen pants summer",
        url |-> "https://images.unsplash.com/photo-1614539655719-256312070de7"],
       [key |-> "cream canvas sneakers summer",
        url |-> "https://images.unsplash.com/photo-1663151860122-4890a08dc22b"],
       [key |-> "round sunglasses tortoise",
        url |-> "https://images.unsplash.com/photo-1681147768015-c6d3702f5e4f"],
       [key |-> "mesh tank top athletic black",
        url |-> "https://images.unsplash.com/photo-1557437173-01f7fd66bf94"],
       [key |-> "performance shorts athletic gray",
        url |-> "https://images.unsplash.com/photo-1723972405511-e3785a045721"],
       [key |-> "sport sandals outdoor black",
        url |-> "https://images.unsplash.com/photo-1593548826648-0357b8c884a9"],
       [key |-> "straw sun hat wide brim",
        url |-> "https://images.unsplash.com/photo-1759935937415-49099042fa91"],
       [key |-> "colorful tank top tropical print",
        url |-> "https://images.unsplash.com/photo-1751024049983-4b1105eb1678"],
       [key |-> "swim trunks tropical pattern",
        url |-> "https://images.unsplash.com/photo-1536685409149-2ca88666aa47"],
       [key |-> "flip flops beach colorful",
        url |-> "https://images.unsplash.com/photo-1550980451-ef715ac3ef01"],
       [key |-> "baseball cap summer white",
        url |-> "https://images.unsplash.com/photo-1611692370244-aebb15c17941"],
       [key |-> "technical tshirt outdoor beige",
        url |-> "https://images.unsplash.com/photo-1742210903945-e41b61e5d9d7"],
       [key |-> "cargo shorts outdoor khaki",
        url |-> "https://images.unsplash.com/photo-1719473448126-eb1159ec5242"],
       [key |-> "hiking sandals outdoor brown",
        url |-> "https://images.unsplash.com/photo-1632078646266-236c777374d4"],
       [key |-> "bucket hat outdoor navy",
        url |-> "https://images.unsplash.com/photo-1682623762727-59194bd4c85b"],
       [key |-> "umbrella rain",
        url |-> "https://images.unsplash.com/photo-1757548710136-66a371811d1c"] >>

GenericFallback == "https://images.unsplash.com/photo-1489987707025-afc232f7ea0f?w=400&h=400&fit=crop"

CacheKeys == {imageCache[i].key : i \in DOMAIN imageCache}

\* imageCache[query]
Cached(query) ==
    IF query \in CacheKeys
    THEN imageCache[CHOOSE i \in DOMAIN imageCache : imageCache[i].key = query].url
    ELSE Undef

\* s.split(' '): the pieces between single spaces, empty pieces included
RECURSIVE Split(_)
Split(s) ==
    LET spaces == {i \in 1 .. Len(s) : SubSeq(s, i, i) = " "} IN
        IF spaces = {} THEN <<s>>
        ELSE <<Slice(s, 1, SetMin(spaces) - 1)>> \o Split(SliceFrom(s, SetMin(spaces) + 1))

\* queryWords.filter(qWord => keyWords.some(kWord => kWord.includes(qWord)
\*                                             || qWord.includes(kWord))).length
MatchCount(queryWords, keyWords) ==
    Cardinality({i \in DOMAIN queryWords :
                    \E k \in DOMAIN keyWords :
                        \/ Includes(keyWords[k], queryWords[i])
                        \/ Includes(queryWords[i], keyWords[k])})

\* key.toLowerCase().split(' ') of every entry
CacheKeyWords == [i \in DOMAIN imageCache |-> Split(ToLowerCase(imageCache[i].key))]

\* scoredKeys.sort((a, b) => b.score - a.score)[0]: the sort is stable, so
\* the first entry, in cache order, of the highest score
BestMatch(query) ==
    LET queryWords == Split(ToLowerCase(query))
        score == [i \in DOMAIN imageCache |-> MatchCount(queryWords, CacheKeyWords[i])]
        best == SetMax(Range(score))
        first == SetMin({i \in DOMAIN imageCache : score[i] = best})
    IN [key |-> imageCache[first].key, url |-> imageCache[first].url, score |-> best]

\* what the fetch of POST /unsplash and the reading of its body yield
LiveUrl(query) == "https://images.unsplash.com/live/" \o query

LiveAnswers(query) ==
    {[thrown |-> TRUE, ok |-> FALSE, parses |-> FALSE, imageUrl |-> Undef],
     [thrown |-> FALSE, ok |-> TRUE, parses |-> TRUE, imageUrl |-> LiveUrl(query)],
     [thrown |-> FALSE, ok |-> TRUE, parses |-> TRUE, imageUrl |-> Undef],
     [thrown |-> FALSE, ok |-> TRUE, parses |-> FALSE, imageUrl |-> Undef],
     [thrown |-> FALSE, ok |-> FALSE, parses |-> TRUE, imageUrl |-> Undef],
     [thrown |-> FALSE, ok |-> FALSE, parses |-> FALSE, imageUrl |-> Undef]}

\* a similar entry taken on one matching word
FromCacheOneWord(query) ==
    IF Cached(query) # Undef THEN Cached(query)
    ELSE IF BestMatch(query).score >= 1 THEN BestMatch(query).url
    ELSE GenericFallback

\* the steps after the live call: exact cache entry, similar entry, generic
FromCache(query) ==
    IF Cached(query) # Undef THEN Cached(query)
    ELSE IF BestMatch(query).score >= 2 THEN BestMatch(query).url
    ELSE GenericFallback

\* without the try/catch around the live call: a failed call rejects
fetchUnsplashImageNoCatch(query, live) ==
    IF live.thrown \/ ~live.parses THEN [rejected |-> TRUE, url |-> Undef]
    ELSE IF live.ok /\ OrElse(live.imageUrl, "") # ""
    THEN [rejected |-> FALSE, url |-> live.imageUrl]
    ELSE [rejected |-> FALSE, url |-> FromCache(query)]

\* the promise fetchUnsplashImage(query) returns: rejected or resolved to url
fetchUnsplashImage(query, live) ==
    IF ~live.thrown /\ live.ok /\ live.parses /\ OrElse(live.imageUrl, "") # ""
    THEN [rejected |-> FALSE, url |-> live.imageUrl]
    ELSE [rejected |-> FALSE, url |-> FromCache(query)]

\* the lookup as getWeatherResponse calls it, the live call answering
fetchImage(query) ==
    fetchUnsplashImage(query, [thrown |-> FALSE, ok |-> TRUE, parses |-> TRUE,
                               imageUrl |-> LiveUrl(query)]).url

(***************************************************************************)
(* getWeatherResponse on the client, after the intent is known.            *)
(***************************************************************************)

\* the join of the image lookups: same variations, same items, in order
WithImages(variations) ==
    [v \in DOMAIN variations |->
        [style |-> variations[v].style,
         items |-> [k \in DOMAIN variations[v].items |->
                       [name |-> variations[v].items[k].name,
                        imageUrl |-> fetchImage(variations[v].items[k].query)]]]]

OutfitWithImages(data) ==
    [summary |-> data.outfit[1].summary, variations |-> WithImages(data.outfit[1].variations)]

ConnectTrouble == "I'm having trouble connecting to the weather service right now. Please try again in a moment."
CompareTrouble == "I'm having trouble comparing cities right now. Please try again in a moment."

\* the value getWeatherResponse resolves to: { message?, error? }
ErrorResult(e) == [error |-> e, message |-> None]
MessageResult(m) == [error |-> Undef, message |-> Some(m)]
NoResult == [error |-> Undef, message |-> None]

\* single city, with a non-OK answer giving neither a message nor an error
SingleResultSilent(data, t) ==
    IF data.thrown THEN ErrorResult(ConnectTrouble)
    ELSE IF ~data.ok THEN NoResult
    ELSE MessageResult(
            [Message(NumId(t + 1), FALSE, Undef) EXCEPT
                !.weatherData = data.weather,
                !.outfitData = Some(OutfitWithImages(data)),
                !.demoMode = data.demoMode])

\* single city: data is what fetch(url) gave, t is Date.now() at the return
SingleResult(data, t) ==
    IF data.thrown THEN ErrorResult(ConnectTrouble)
    ELSE IF ~data.ok
    THEN ErrorResult("I'm sorry, I couldn't fetch the weather data. "
                        \o OrElse(data.error, "Please try again."))
    ELSE MessageResult(
            [Message(NumId(t + 1), FALSE, Undef) EXCEPT
                !.weatherData = data.weather,
                !.outfitData = Some(OutfitWithImages(data)),
                !.demoMode = data.demoMode])

\* comparison, failing only when both answers are bad: one good answer
\* gives a card with that city alone
CompareResultPartial(data1, data2, t) ==
    LET bad(data) == data.thrown \/ ~data.ok
        side(data) ==
            [weather |-> data.weather,
             outfit |-> IF bad(data) THEN [summary |-> Undef, variations |-> <<>>]
                        ELSE OutfitWithImages(data)]
    IN IF bad(data1) /\ bad(data2) THEN ErrorResult(CompareTrouble)
       ELSE MessageResult(
               [Message(NumId(t + 1), FALSE, Undef) EXCEPT
                   !.comparisonData = Some([city1 |-> side(data1), city2 |-> side(data2)]),
                   !.demoMode = Some(FALSE)])

\* comparison: data1 and data2 are the two answers joined by Promise.all
CompareResult(data1, data2, t) ==
    IF data1.thrown \/ data2.thrown THEN ErrorResult(CompareTrouble)
    ELSE IF ~data1.ok \/ ~data2.ok
    THEN ErrorResult(Trim("I'm sorry, I couldn't fetch weather data. "
                        \o (IF ~data1.ok THEN OrElse(data1.error, "") ELSE "")
                        \o " "
                        \o (IF ~data2.ok THEN OrElse(data2.error, "") ELSE "")))
    ELSE MessageResult(
            [Message(NumId(t + 1), FALSE, Undef) EXCEPT
                !.comparisonData = Some(
                    [city1 |-> [weather |-> data1.weather, outfit |-> OutfitWithImages(data1)],
                     city2 |-> [weather |-> data2.weather, outfit |-> OutfitWithImages(data2)]]),
                !.demoMode = Some(data1.demoMode[1] \/ data2.demoMode[1])])

(***************************************************************************)
(* GET /outfit-image-status.  A status call is described by what happens   *)
(* to it: call is "throw" (the client's fetch rejects), "unparseable" (the *)
(* client gets an OK answer whose body is not JSON), "nokey" (the server   *)
(* has no credential), "error" (the provider answers non-OK) or "ok" (the  *)
(* provider answers with successFlag and maybe resultImageUrl and          *)
(* errorMessage).                                                          *)
(***************************************************************************)
StatusCalls ==
    {[call |-> c, successFlag |-> 0, resultImageUrl |-> Undef, errorMessage |-> Undef] :
        c \in {"throw", "unparseable", "nokey", "error"}}
    \cup
    [call : {"ok"}, successFlag : {0, 1, 2, 3, 9},
     resultImageUrl : {Undef, "https://generated/outfit.png"},
     errorMessage : {Undef, "prompt rejected"}]

\* the map without its default: a flag it does not know is a failed generation
statusMapUnknownFails(successFlag) ==
    CASE successFlag = 0 -> "generating"
      [] successFlag = 1 -> "success"
      [] successFlag = 2 -> "create_failed"
      [] OTHER -> "generation_failed"

statusMap(successFlag) ==
    CASE successFlag = 0 -> "generating"
      [] successFlag = 1 -> "success"
      [] successFlag = 2 -> "create_failed"
      [] successFlag = 3 -> "generation_failed"
      [] OTHER -> "unknown"

\* the endpoint answering a failed job without the provider's message
StatusEndpointGenericError(up) ==
    IF up.call = "nokey"
    THEN [ok |-> FALSE, status |-> Undef, imageUrl |-> Undef,
          error |-> "Nano Banana API key not configured"]
    ELSE IF up.call = "error"
    THEN [ok |-> FALSE, status |-> Undef, imageUrl |-> Undef,
          error |-> "Failed to check status (HTTP error)"]
    ELSE LET status == statusMap(up.successFlag) IN
         [ok |-> TRUE, status |-> status,
          imageUrl |-> IF status = "success" /\ up.resultImageUrl # Undef
                       THEN up.resultImageUrl ELSE Undef,
          error |-> Undef]

StatusEndpoint(up) ==
    IF up.call = "nokey"
    THEN [ok |-> FALSE, status |-> Undef, imageUrl |-> Undef,
          error |-> "Nano Banana API key not configured"]
    ELSE IF up.call = "error"
    THEN [ok |-> FALSE, status |-> Undef, imageUrl |-> Undef,
          error |-> "Failed to check status (HTTP error)"]
    ELSE LET status == statusMap(up.successFlag) IN
         [ok |-> TRUE, status |-> status,
          imageUrl |-> IF status = "success" /\ up.resultImageUrl # Undef
                       THEN up.resultImageUrl ELSE Undef,
          error |-> IF status = "success" /\ up.resultImageUrl # Undef THEN Undef
                    ELSE IF status \in {"create_failed", "generation_failed"}
                    THEN OrElse(up.errorMessage, "Generation failed")
                    ELSE Undef]

\* the status fetch taking a failed request for an answer of 'generating'
StatusFetchForgiving(how) ==
    IF how.call \in {"throw", "unparseable", "nokey", "error"}
    THEN [thrown |-> FALSE, parses |-> TRUE, ok |-> TRUE, status |-> "generating",
          imageUrl |-> Undef, error |-> Undef]
    ELSE [thrown |-> FALSE, parses |-> TRUE] @@ StatusEndpoint(how)

\* what the client's status fetch yields
StatusFetch(how) ==
    IF how.call = "throw"
    THEN [thrown |-> TRUE, parses |-> FALSE, ok |-> FALSE, status |-> Undef,
          imageUrl |-> Undef, error |-> Undef]
    ELSE IF how.call = "unparseable"
    THEN [thrown |-> FALSE, parses |-> FALSE, ok |-> TRUE, status |-> Undef,
          imageUrl |-> Undef, error |-> Undef]
    ELSE [thrown |-> FALSE, parses |-> TRUE] @@ StatusEndpoint(how)

(***************************************************************************)
(* What the client's fetch of POST /generate-outfit-image yields.          *)
(***************************************************************************)
TaskIds == <<"task-1", "task-2", "task-3", "task-4">>

GenerateFetches(j) ==
    {[thrown |-> FALSE, parses |-> TRUE, ok |-> TRUE, taskId |-> TaskIds[j],
      error |-> Undef, details |-> Undef],
     [thrown |-> FALSE, parses |-> TRUE, ok |-> TRUE, taskId |-> Undef,
      error |-> Undef, details |-> Undef],
     [thrown |-> FALSE, parses |-> TRUE, ok |-> FALSE, taskId |-> Undef,
      error |-> "Nano Banana API key not configured", details |-> Undef],
     [thrown |-> FALSE, parses |-> TRUE, ok |-> FALSE, taskId |-> Undef,
      error |-> Undef, details |-> "upstream details"],
     [thrown |-> FALSE, parses |-> TRUE, ok |-> FALSE, taskId |-> Undef,
      error |-> Undef, details |-> Undef],
     [thrown |-> FALSE, parses |-> FALSE, ok |-> FALSE, taskId |-> Undef,
      error |-> Undef, details |-> Undef],
     [thrown |-> TRUE, parses |-> FALSE, ok |-> FALSE, taskId |-> Undef,
      error |-> Undef, details |-> Undef]}

(***************************************************************************)
(* State.                                                                  *)
(*   messages  the transcript (useState<Message[]>)                        *)
(*   isTyping  the typing indicator                                        *)
(*   now       Date.now(), in milliseconds since the page was opened       *)
(*   ticks     how many single milliseconds have been let pass             *)
(*   reqs      one record per run of handleSend: where it is suspended,    *)
(*             its userInput and the result of getWeatherResponse once it  *)
(*             has one; the other fields are history of the run: userPos   *)
(*             the index of the user's entry, intent what the intent       *)
(*             extraction made of userInput, fetched whether each weather  *)
(*             fetch gave an OK answer, answers the indexes of the         *)
(*             assistant entries it appended; armedAt is when its timer    *)
(*             was set                                                     *)
(*   jobs      one record per run of handleGenerateOutfit: where it is     *)
(*             suspended and its closure (generatedOutfitMessage.id,       *)
(*             cityName, taskId, attempts); the other fields are history   *)
(*             of the run: pos the index of the entry it appended, polls   *)
(*             the status requests it has sent, pending the non-terminal   *)
(*             answers it has received, last the kind of the last answer   *)
(*             and lastError the provider's errorMessage in it, shown the  *)
(*             index the card showed whose button started it; style and    *)
(*             items are what the start call carries; armedAt is when its  *)
(*             timer was set                                               *)
(*   probe     the last application of one of the program's functions to   *)
(*             an input of its own: the function, the input, the output    *)
(*   pipe      one run of getWeatherResponse followed await by await: the  *)
(*             weather fetches not yet returned (waiting), the answers     *)
(*             that are in, the image lookups in flight, the URL each      *)
(*             finished lookup resolved to, the value returned; the rest   *)
(*             is history: started the lookups begun so far, overtook      *)
(*             whether a lookup completed before one mapped earlier,       *)
(*             fallbacks the number of lookups whose live call failed      *)
(*   currentIndex  the useState of the OutfitCard components: the index of *)
(*             the variation a card shows, for the cards whose selector    *)
(*             was clicked (a card starts at 0); a card is the index of    *)
(*             its entry and its side                                      *)
(***************************************************************************)
VARIABLES messages, isTyping, now, ticks, reqs, jobs, probe, pipe, currentIndex

vars == <<messages, isTyping, now, ticks, reqs, jobs, probe, pipe, currentIndex>>

Reqs == 1 .. MaxSends
AllReqs == 1 .. (IF MaxSends > ChatSends THEN MaxSends ELSE ChatSends)
Jobs == 1 .. MaxJobs

IdleReq ==
    [pc |-> "idle", userInput |-> "", result |-> NoResult,
     armedAt |-> 0, userPos |-> 0, intent |-> <<>>, fetched |-> <<>>, answers |-> <<>>]

IdleJob ==
    [pc |-> "idle", id |-> GenId(0), cityName |-> Undef, style |-> Undef,
     items |-> <<>>, taskId |-> Undef, attempts |-> 0, pos |-> 0, polls |-> 0, pending |-> 0,
     armedAt |-> 0, last |-> "none", lastError |-> Undef, shown |-> 0]

\* no function has been applied yet
NoProbe == [fn |-> "none"]

\* getWeatherResponse has not been called
IdlePipe ==
    [pc |-> "idle", intent |-> <<>>, waiting |-> {}, answers |-> <<>>, inFlight |-> {},
     urls |-> <<>>, overtook |-> FALSE, started |-> {}, fallbacks |-> 0, result |-> NoResult]

Init ==
    /\ messages = <<WelcomeMessage>>
    /\ isTyping = FALSE
    /\ now = 0
    /\ ticks = 0
    /\ reqs = [r \in AllReqs |-> IdleReq]
    /\ jobs = [j \in Jobs |-> IdleJob]
    /\ probe = NoProbe
    /\ pipe = IdlePipe
    /\ currentIndex = <<>>

(***************************************************************************)
(* Time.  A timer's callback runs once its delay has passed: when it runs  *)
(* the clock is at least the time the timer was set plus the delay.  Apart *)
(* from that, Tick lets one millisecond pass.                              *)
(***************************************************************************)
Tick ==
    /\ ticks < MaxTicks
    /\ now' = now + 1
    /\ ticks' = ticks + 1
    /\ UNCHANGED <<messages, isTyping, reqs, jobs, probe, pipe, currentIndex>>

(***************************************************************************)
(* handleSend, up to its await: the user's entry is appended, the typing   *)
(* indicator set and getWeatherResponse started (its fetches are sent).    *)
(***************************************************************************)
HandleSend(r, u) ==
    /\ reqs[r].pc = "idle"
    /\ r > 1 => reqs[r - 1].pc # "idle"
    /\ ~IsBlank(u)
    /\ messages' = Append(messages, Message(NumId(now), TRUE, u))
    /\ isTyping' = TRUE
    /\ reqs' = [reqs EXCEPT ![r] = [IdleReq EXCEPT !.pc = "fetch", !.userInput = u,
                                                   !.userPos = Len(messages) + 1]]
    /\ UNCHANGED <<now, ticks, jobs, probe, pipe, currentIndex>>

(***************************************************************************)
(* getWeatherResponse resumes with the answer(s) of the weather endpoint,  *)
(* joins the image lookups and returns; handleSend then arms the timer.    *)
(***************************************************************************)
GetWeatherResponse(r, up1, up2) ==
    /\ reqs[r].pc = "fetch"
    /\ \E intent \in {IntentOf[reqs[r].userInput]}, fetchOf \in {WeatherFetchOf} :
          \E data1 \in {fetchOf[intent.city1][up1]}, data2 \in {fetchOf[intent.city2][up2]} :
             /\ intent.kind = "single" => up2 = "throw"
             /\ reqs' = [reqs EXCEPT ![r].pc = "timer",
                                     ![r].armedAt = now,
                                     ![r].intent = <<intent>>,
                                     ![r].fetched =
                                         IF intent.kind = "compare"
                                         THEN <<~data1.thrown /\ data1.ok, ~data2.thrown /\ data2.ok>>
                                         ELSE <<~data1.thrown /\ data1.ok>>,
                                     ![r].result =
                                         IF intent.kind = "compare"
                                         THEN CompareResult(data1, data2, now)
                                         ELSE SingleResult(data1, now)]
    /\ UNCHANGED <<messages, isTyping, now, ticks, jobs, probe, pipe, currentIndex>>

(***************************************************************************)
(* The callback of setTimeout(..., 1000) in handleSend.                    *)
(***************************************************************************)
SendTimer(r) ==
    /\ reqs[r].pc = "timer"
    /\ now' = Max(now, reqs[r].armedAt + ReplyDelay)
    /\ LET result == reqs[r].result IN
       messages' =
          IF OrElse(result.error, "") # ""
          THEN Append(messages, Message(NumId(now' + 1), FALSE, result.error))
          ELSE IF result.message # None
          THEN Append(messages, result.message[1])
          ELSE messages
    /\ isTyping' = FALSE
    /\ reqs' = [reqs EXCEPT ![r].pc = "done",
                            ![r].armedAt = 0,
                            ![r].answers = [k \in 1 .. (Len(messages') - Len(messages)) |->
                                               Len(messages) + k]]
    /\ UNCHANGED <<ticks, jobs, probe, pipe, currentIndex>>

(***************************************************************************)
(* handleGenerateOutfit.                                                   *)
(***************************************************************************)
\* the (weather, outfit) pairs the Generate Outfit buttons of entry m pass,
\* each with the side of its card (1 for the card of a single city)
ButtonArgs(m) ==
    (IF m.comparisonData # None
     THEN {[side |-> 1, weather |-> m.comparisonData[1].city1.weather[1],
            outfit |-> m.comparisonData[1].city1.outfit],
           [side |-> 2, weather |-> m.comparisonData[1].city2.weather[1],
            outfit |-> m.comparisonData[1].city2.outfit]}
     ELSE {})
    \cup
    (IF m.comparisonData = None /\ m.generatedOutfit = None
        /\ m.weatherData # None /\ m.outfitData # None
     THEN {[side |-> 1, weather |-> m.weatherData[1], outfit |-> m.outfitData[1]]}
     ELSE {})

\* the entries that msg.id === id selects
WithId(msgs, id) == {msg \in Range(msgs) : msg.id = id}

\* setMessages(prev => prev.map(msg => msg.id === id ? {...msg, generatedOutfit: g[msg]} : msg))
UpdateById(msgs, id, g) ==
    [i \in DOMAIN msgs |->
        IF msgs[i].id = id
        THEN [msgs[i] EXCEPT !.generatedOutfit = Some(g[msgs[i]])]
        ELSE msgs[i]]

\* the catch block taking the failed entry out of the transcript
CatchErrorDropsEntry(msgs, job, message) ==
    SelectSeq(msgs, LAMBDA msg : msg.id # job.id)

\* the catch block leaving isGenerating true
CatchErrorStillGenerating(msgs, job, message) ==
    LET g == [msg \in WithId(msgs, job.id) |->
                 [cityName |-> job.cityName, imageUrl |-> Undef, isGenerating |-> TRUE,
                     error |-> OrElse(message, "Failed to generate outfit image"),
                     taskId |-> Undef]]
    IN UpdateById(msgs, job.id, g)

\* the catch block: the entry gets the error record
CatchError(msgs, job, message) ==
    LET g == [msg \in WithId(msgs, job.id) |->
                 [cityName |-> job.cityName, imageUrl |-> Undef, isGenerating |-> FALSE,
                     error |-> OrElse(message, "Failed to generate outfit image"),
                     taskId |-> Undef]]
    IN UpdateById(msgs, job.id, g)

\* the success branch with isGenerating left true
SetSuccessStillGenerating(msgs, job, imageUrl) ==
    LET g == [msg \in WithId(msgs, job.id) |->
                 [cityName |-> job.cityName, imageUrl |-> imageUrl, isGenerating |-> TRUE,
                     error |-> Undef, taskId |-> Undef]]
    IN UpdateById(msgs, job.id, g)

\* the success branch keeping the fields of the record it replaces
SetSuccessSpreads(msgs, job, imageUrl) ==
    LET g == [msg \in WithId(msgs, job.id) |->
                 [msg.generatedOutfit[1] EXCEPT !.imageUrl = imageUrl, !.isGenerating = FALSE]]
    IN UpdateById(msgs, job.id, g)

\* the success branch of pollStatus
SetSuccess(msgs, job, imageUrl) ==
    LET g == [msg \in WithId(msgs, job.id) |->
                 [cityName |-> job.cityName, imageUrl |-> imageUrl, isGenerating |-> FALSE,
                     error |-> Undef, taskId |-> Undef]]
    IN UpdateById(msgs, job.id, g)

\* { ...msg.generatedOutfit!, taskId }
SetTaskId(msgs, job, taskId) ==
    LET g == [msg \in WithId(msgs, job.id) |->
                 [msg.generatedOutfit[1] EXCEPT !.taskId = taskId]]
    IN UpdateById(msgs, job.id, g)

\* the cards of the transcript that have a style selector: an entry and a side
Cards(msgs) ==
    {card \in (DOMAIN msgs) \X {1, 2} :
        \E args \in ButtonArgs(msgs[card[1]]) :
            args.side = card[2] /\ Len(args.outfit.variations) > 1}

\* the variations prop of a card
CardVariations(msgs, card) ==
    (CHOOSE args \in ButtonArgs(msgs[card[1]]) : args.side = card[2]).outfit.variations

\* useState(0): the index a card shows
IndexOf(card) == IF card \in DOMAIN currentIndex THEN currentIndex[card] ELSE 0

\* setCurrentIndex(prev => prev === 0 ? variations.length - 1 : prev - 1)
HandlePrev(card) ==
    /\ card \in Cards(messages)
    /\ \E prev \in {IndexOf(card)} :
          currentIndex' = (card :> (IF prev = 0 THEN Len(CardVariations(messages, card)) - 1
                                    ELSE prev - 1)) @@ currentIndex
    /\ UNCHANGED <<messages, isTyping, now, ticks, reqs, jobs, probe, pipe>>

\* setCurrentIndex(prev => prev === variations.length - 1 ? 0 : prev + 1)
HandleNext(card) ==
    /\ card \in Cards(messages)
    /\ \E prev \in {IndexOf(card)} :
          currentIndex' = (card :> (IF prev = Len(CardVariations(messages, card)) - 1 THEN 0
                                    ELSE prev + 1)) @@ currentIndex
    /\ UNCHANGED <<messages, isTyping, now, ticks, reqs, jobs, probe, pipe>>

\* the variation the card shows taken for the start call
currentVariationShown(outfit, index) == outfit.variations[index + 1]

\* const currentVariation = outfit.variations[0]; index is what the card shows
currentVariation(outfit, index) == outfit.variations[1]

\* the button is pressed: the job's entry is appended and the start call sent
HandleGenerateOutfit(j, i, args) ==
    /\ jobs[j].pc = "idle"
    /\ j > 1 => jobs[j - 1].pc # "idle"
    /\ i \in DOMAIN messages
    /\ args \in ButtonArgs(messages[i])
    /\ LET variation == currentVariation(args.outfit, IndexOf(<<i, args.side>>))
           cityName == args.weather.location
           generatedOutfitMessage ==
               [Message(GenId(now), FALSE, Undef) EXCEPT
                   !.generatedOutfit = Some([cityName |-> cityName, imageUrl |-> Undef,
                                             isGenerating |-> TRUE, error |-> Undef,
                                             taskId |-> Undef])]
       IN /\ messages' = Append(messages, generatedOutfitMessage)
          /\ jobs' = [jobs EXCEPT ![j] =
                        [IdleJob EXCEPT !.pc = "start", !.id = generatedOutfitMessage.id,
                                        !.cityName = cityName,
                                        !.style = variation.style,
                                        !.items = variation.items,
                                        !.shown = IndexOf(<<i, args.side>>),
                                        !.pos = Len(messages) + 1]]
    /\ UNCHANGED <<isTyping, now, ticks, reqs, probe, pipe, currentIndex>>

\* pollStatus with the ceiling tested by > instead of >=
PollStatusOffByOne(job) ==
    IF job.attempts > maxAttempts
    THEN [thrown |-> "Generation timeout - please try again",
          job |-> [job EXCEPT !.pc = "done", !.armedAt = 0]]
    ELSE [thrown |-> Undef,
          job |-> [job EXCEPT !.pc = "status", !.armedAt = 0, !.attempts = @ + 1,
                              !.polls = @ + 1]]

\* pollStatus, from its entry to its fetch: the attempt is counted and the
\* status request sent, or the attempt ceiling throws
PollStatus(job) ==
    IF job.attempts >= maxAttempts
    THEN [thrown |-> "Generation timeout - please try again",
          job |-> [job EXCEPT !.pc = "done", !.armedAt = 0]]
    ELSE [thrown |-> Undef,
          job |-> [job EXCEPT !.pc = "status", !.armedAt = 0, !.attempts = @ + 1,
                              !.polls = @ + 1]]

\* the start call's answer checked without the test for a missing taskId
StartThrownNoTaskIdTest(resp) ==
    IF resp.thrown THEN "Failed to fetch"
    ELSE IF ~resp.parses THEN "Invalid response from server: "
    ELSE IF ~resp.ok
    THEN OrElse(resp.error, OrElse(resp.details, "Failed to start generation"))
    ELSE Undef

\* the Error the start call's answer makes handleGenerateOutfit throw, if any
StartThrown(resp) ==
    IF resp.thrown THEN "Failed to fetch"
    ELSE IF ~resp.parses THEN "Invalid response from server: "
    ELSE IF ~resp.ok
    THEN OrElse(resp.error, OrElse(resp.details, "Failed to start generation"))
    ELSE IF OrElse(resp.taskId, "") = "" THEN "Server response missing taskId"
    ELSE Undef

\* history: what kind of answer the start call got
StartKind(resp) ==
    IF resp.thrown THEN "start: thrown"
    ELSE IF ~resp.parses THEN "start: unparseable"
    ELSE IF ~resp.ok THEN "start: not ok"
    ELSE IF resp.taskId = Undef THEN "start: no taskId"
    ELSE "start: ok"

\* the start call returns: an error ends the job, a task id is recorded and
\* the first pollStatus() runs to its fetch
GenerateResponse(j, resp) ==
    /\ jobs[j].pc = "start"
    /\ resp \in GenerateFetches(j)
    /\ LET job == [jobs[j] EXCEPT !.last = StartKind(resp)]
           thrown == StartThrown(resp)
       IN IF thrown # Undef
          THEN /\ messages' = CatchError(messages, job, thrown)
               /\ jobs' = [jobs EXCEPT ![j] = [job EXCEPT !.pc = "done"]]
          ELSE LET poll == PollStatus([job EXCEPT !.taskId = resp.taskId])
               IN /\ messages' =
                        IF poll.thrown # Undef
                        THEN CatchError(SetTaskId(messages, job, resp.taskId), job, poll.thrown)
                        ELSE SetTaskId(messages, job, resp.taskId)
                  /\ jobs' = [jobs EXCEPT ![j] = poll.job]
    /\ UNCHANGED <<isTyping, now, ticks, reqs, probe, pipe, currentIndex>>

\* is the answer one that makes pollStatus wait and poll again?
NonTerminal(resp) ==
    /\ ~resp.thrown /\ resp.ok /\ resp.parses
    /\ ~(resp.status = "success" /\ OrElse(resp.imageUrl, "") # "")
    /\ resp.status \notin {"create_failed", "generation_failed"}

\* the status request returns
StatusResponse(j, how) ==
    /\ jobs[j].pc = "status"
    /\ how \in StatusCalls
    /\ LET job == [jobs[j] EXCEPT !.lastError = how.errorMessage]
           resp == StatusFetch(how)
       IN
       IF resp.thrown
       THEN /\ messages' = CatchError(messages, job, "Failed to fetch")
            /\ jobs' = [jobs EXCEPT ![j] = [job EXCEPT !.pc = "done", !.last = "thrown"]]
       ELSE IF ~resp.ok
       THEN /\ messages' = CatchError(messages, job, "Failed to check status")
            /\ jobs' = [jobs EXCEPT ![j] = [job EXCEPT !.pc = "done", !.last = "not ok"]]
       ELSE IF ~resp.parses
       THEN /\ messages' = CatchError(messages, job, "Unexpected token < in JSON")
            /\ jobs' = [jobs EXCEPT ![j] = [job EXCEPT !.pc = "done", !.last = "unparseable"]]
       ELSE IF resp.status = "success" /\ OrElse(resp.imageUrl, "") # ""
       THEN /\ messages' = SetSuccess(messages, job, resp.imageUrl)
            /\ jobs' = [jobs EXCEPT ![j] = [job EXCEPT !.pc = "done", !.last = "success"]]
       ELSE IF resp.status = "create_failed" \/ resp.status = "generation_failed"
       THEN /\ messages' = CatchError(messages, job, OrElse(resp.error, "Generation failed"))
            /\ jobs' = [jobs EXCEPT ![j] = [job EXCEPT !.pc = "done", !.last = resp.status]]
       ELSE /\ messages' = messages
            /\ jobs' = [jobs EXCEPT ![j] =
                          [job EXCEPT !.pc = "sleep", !.armedAt = now, !.pending = @ + 1,
                                      !.last = "pending"]]
    /\ UNCHANGED <<isTyping, now, ticks, reqs, probe, pipe, currentIndex>>

\* the 5 second timer fires and pollStatus() is called again
PollAgain(j) ==
    /\ jobs[j].pc = "sleep"
    /\ now' = Max(now, jobs[j].armedAt + PollDelay)
    /\ LET poll == PollStatus(jobs[j]) IN
       /\ messages' = IF poll.thrown # Undef
                      THEN CatchError(messages, jobs[j], poll.thrown)
                      ELSE messages
       /\ jobs' = [jobs EXCEPT ![j] = poll.job]
    /\ UNCHANGED <<isTyping, ticks, reqs, probe, pipe, currentIndex>>

(***************************************************************************)
(* getWeatherResponse followed await by await.  A lookup is named by the   *)
(* side of the comparison (1 or 2; 1 for a single city), the index of its  *)
(* variation and the index of its item.                                    *)
(***************************************************************************)
MaxFallbacks == 2

\* the queries of the items the server recommends
ItemQueries ==
    {Umbrella.query, SnowGear.query} \cup
    UNION {{bv[1].variations[bv[2]].items[i].query : i \in DOMAIN bv[1].variations[bv[2]].items} :
              bv \in {ExtremeCold, Cold, MildCool, Comfortable, Warm, Hot} \X (1 .. 3)}

\* what fetchUnsplashImage resolves to, for each of them and each answer of
\* the live call
fetchUnsplashImageOf ==
    [query \in ItemQueries |->
        [live \in LiveAnswers(query) |-> fetchUnsplashImage(query, live)]]

\* variation.items.map(async item => ...) over data.outfit.variations.map:
\* every item's fetchImage is called before the first await returns
LookupsOf(data, side) ==
    UNION {{<<side, v, k>> : k \in DOMAIN data.outfit[1].variations[v].items} :
              v \in DOMAIN data.outfit[1].variations}

\* a is mapped before b: an earlier variation, or an earlier item of the same
Before(a, b) == a[1] = b[1] /\ (a[2] < b[2] \/ (a[2] = b[2] /\ a[3] < b[3]))

QueryOf(answers, id) == answers[id[1]].outfit[1].variations[id[2]].items[id[3]].query

\* the join giving each item of a variation the image of the item after it
JoinedShifted(data, side, urls) ==
    [v \in DOMAIN data.outfit[1].variations |->
        [style |-> data.outfit[1].variations[v].style,
         items |-> [k \in DOMAIN data.outfit[1].variations[v].items |->
                       [name |-> data.outfit[1].variations[v].items[k].name,
                        imageUrl |-> urls[<<side, v,
                                            (k % Len(data.outfit[1].variations[v].items)) + 1>>]]]]]

\* Promise.all(variations.map(async variation => ({style, items: await
\* Promise.all(items.map(async item => ({name, imageUrl: await fetchImage(item.query)})))})))
Joined(data, side, urls) ==
    [v \in DOMAIN data.outfit[1].variations |->
        [style |-> data.outfit[1].variations[v].style,
         items |-> [k \in DOMAIN data.outfit[1].variations[v].items |->
                       [name |-> data.outfit[1].variations[v].items[k].name,
                        imageUrl |-> urls[<<side, v, k>>]]]]]

JoinedOutfit(data, side, urls) ==
    [summary |-> data.outfit[1].summary, variations |-> Joined(data, side, urls)]

\* the message returned once every lookup has resolved
JoinedResult(intent, answers, urls, t) ==
    IF intent.kind = "compare"
    THEN MessageResult(
            [Message(NumId(t + 1), FALSE, Undef) EXCEPT
                !.comparisonData = Some(
                    [city1 |-> [weather |-> answers[1].weather,
                                outfit |-> JoinedOutfit(answers[1], 1, urls)],
                     city2 |-> [weather |-> answers[2].weather,
                                outfit |-> JoinedOutfit(answers[2], 2, urls)]]),
                !.demoMode = Some(answers[1].demoMode[1] \/ answers[2].demoMode[1])])
    ELSE MessageResult(
            [Message(NumId(t + 1), FALSE, Undef) EXCEPT
                !.weatherData = answers[1].weather,
                !.outfitData = Some(JoinedOutfit(answers[1], 1, urls)),
                !.demoMode = answers[1].demoMode])

\* getWeatherResponse(userMessage, fetchImage) is called: the intent is
\* extracted and the weather fetches are sent
CallGetWeatherResponse(u) ==
    /\ pipe.pc = "idle"
    /\ ~IsBlank(u)
    /\ \E intent \in {IntentOf[u]} :
          pipe' = [IdlePipe EXCEPT !.pc = "weather", !.intent = <<intent>>,
                                   !.waiting = IF intent.kind = "compare" THEN {1, 2} ELSE {1}]
    /\ UNCHANGED <<messages, isTyping, now, ticks, reqs, jobs, probe, currentIndex>>

\* all the weather answers are in: an error, or the lookups of side 1
WeatherJoined(p, answers) ==
    IF \E side \in DOMAIN answers : ~answers[side].ok
    THEN [p EXCEPT !.pc = "done", !.waiting = {}, !.answers = answers,
                   !.result = IF p.intent[1].kind = "compare"
                              THEN CompareResult(answers[1], answers[2], now)
                              ELSE SingleResult(answers[1], now)]
    ELSE [p EXCEPT !.pc = "images", !.waiting = {}, !.answers = answers,
                   !.inFlight = LookupsOf(answers[1], 1),
                   !.started = LookupsOf(answers[1], 1)]

\* one weather fetch returns: a rejection ends the run in the catch block,
\* the last answer lets the run go on
WeatherFetchReturns(side, up) ==
    /\ pipe.pc = "weather"
    /\ side \in pipe.waiting
    /\ \E intent \in {pipe.intent[1]}, fetchOf \in {WeatherFetchOf} :
          \E data \in {fetchOf[IF side = 1 THEN intent.city1 ELSE intent.city2][up]} :
             pipe' =
                IF data.thrown
                THEN [pipe EXCEPT !.pc = "done",
                                  !.waiting = @ \ {side},
                                  !.result = ErrorResult(IF intent.kind = "compare"
                                                         THEN CompareTrouble ELSE ConnectTrouble)]
                ELSE IF pipe.waiting # {side}
                THEN [pipe EXCEPT !.waiting = @ \ {side}, !.answers = (side :> data) @@ @]
                ELSE WeatherJoined(pipe, (side :> data) @@ pipe.answers)
    /\ UNCHANGED <<messages, isTyping, now, ticks, reqs, jobs, probe, currentIndex>>

\* the lookups of a side have all resolved: the lookups of the other side
\* of a comparison begin, or the message is returned
LookupsJoined(p, side) ==
    IF p.intent[1].kind = "compare" /\ side = 1
    THEN [p EXCEPT !.inFlight = LookupsOf(p.answers[2], 2),
                   !.started = @ \cup LookupsOf(p.answers[2], 2)]
    ELSE [p EXCEPT !.pc = "done",
                   !.result = JoinedResult(p.intent[1], p.answers, p.urls, now)]

\* the live call of one lookup returns and fetchUnsplashImage resolves
ImageLookupReturns(id, live) ==
    /\ pipe.pc = "images"
    /\ id \in pipe.inFlight
    /\ (live.thrown \/ live.imageUrl = Undef) => pipe.fallbacks < MaxFallbacks
    /\ \E image \in {fetchUnsplashImageOf[QueryOf(pipe.answers, id)][live]} :
          \E p \in {[pipe EXCEPT !.inFlight = @ \ {id},
                                 !.urls = (id :> image.url) @@ @,
                                 !.overtook = @ \/ \E other \in pipe.inFlight : Before(other, id),
                                 !.fallbacks = IF live.thrown \/ live.imageUrl = Undef
                                               THEN @ + 1 ELSE @]} :
             pipe' = IF p.inFlight # {} THEN p
                     ELSE LookupsJoined(p, id[1])
    /\ UNCHANGED <<messages, isTyping, now, ticks, reqs, jobs, probe, currentIndex>>

(***************************************************************************)
(* Specifications.                                                         *)
(*   Spec      every interleaving of MaxSends comparison requests, which   *)
(*             the weather endpoint answers with live data, and MaxJobs    *)
(*             jobs, whose start call succeeds or is rejected and whose    *)
(*             status polls are answered generating (at most MaxPending    *)
(*             times), success or generation_failed.                       *)
(*   PollSpec  one submission and one job; every answer of every endpoint, *)
(*             so the poll loop runs to its attempt ceiling.               *)
(*   ChatSpec  ChatSends submissions and no job; every answer of the       *)
(*             weather endpoint.                                           *)
(*   IntentSpec one submission, of the utterances that exercise the intent *)
(*             extraction.                                                 *)
(*   LiveSpec  one submission and two jobs; the first job may be answered  *)
(*             "generating" without limit and is treated fairly (each of   *)
(*             its network calls returns and its timer fires), the second  *)
(*             runs, unfairly, during the first polls of the first.        *)
(***************************************************************************)

SomeUtterances == {"compare Tokyo and Paris"}
SomeFetches == {"ok"}
SomeGenerateFetches(j) == {resp \in GenerateFetches(j) : resp.thrown \/ resp.taskId # Undef}
SomeStatusCalls ==
    {how \in StatusCalls :
        /\ how.call = "ok"
        /\ \/ how.successFlag = 0 /\ how.resultImageUrl = Undef /\ how.errorMessage = Undef
           \/ how.successFlag = 1 /\ how.resultImageUrl # Undef /\ how.errorMessage = Undef
           \/ how.successFlag = 3 /\ how.resultImageUrl = Undef /\ how.errorMessage = Undef}

Send == \E r \in Reqs : \E u \in SomeUtterances : HandleSend(r, u)
Weather == \E r \in Reqs : \E up1, up2 \in SomeFetches : GetWeatherResponse(r, up1, up2)
Timer == \E r \in Reqs : SendTimer(r)
Generate ==
    \E j \in Jobs : \E i \in DOMAIN messages : \E args \in ButtonArgs(messages[i]) :
        HandleGenerateOutfit(j, i, args)
Started == \E j \in Jobs : \E resp \in SomeGenerateFetches(j) : GenerateResponse(j, resp)
Status ==
    \E j \in Jobs : \E how \in SomeStatusCalls :
        /\ NonTerminal(StatusFetch(how)) => jobs[j].pending < MaxPending
        /\ StatusResponse(j, how)
Sleep == \E j \in Jobs : PollAgain(j)

Next == Tick \/ Send \/ Weather \/ Timer \/ Generate \/ Started \/ Status \/ Sleep

Spec == Init /\ [][Next]_vars

PollSend == \E u \in Utterances : HandleSend(1, u)
PollWeather == \E up1, up2 \in Fetches : GetWeatherResponse(1, up1, up2)
PollTimer == SendTimer(1)
PollGenerate ==
    \E i \in DOMAIN messages : \E args \in ButtonArgs(messages[i]) :
        HandleGenerateOutfit(1, i, args)
PollStarted == \E resp \in GenerateFetches(1) : GenerateResponse(1, resp)
PollAnswer == \E how \in StatusCalls : StatusResponse(1, how)
PollSleep == PollAgain(1)

PollNext ==
    Tick \/ PollSend \/ PollWeather \/ PollTimer \/ PollGenerate \/ PollStarted
        \/ PollAnswer \/ PollSleep

PollSpec == Init /\ [][PollNext]_vars

ChatSend == \E r \in 1 .. ChatSends : \E u \in Utterances : HandleSend(r, u)
ChatWeather == \E r \in 1 .. ChatSends : \E up1, up2 \in Fetches : GetWeatherResponse(r, up1, up2)
ChatTimer == \E r \in 1 .. ChatSends : SendTimer(r)

ChatNext == Tick \/ ChatSend \/ ChatWeather \/ ChatTimer

ChatSpec == Init /\ [][ChatNext]_vars

\* the second job runs while the first one has made at most EarlyPolls polls
Early == jobs[1].attempts <= EarlyPolls

LiveSend == \E u \in SomeUtterances : HandleSend(1, u)
LiveWeather == \E up1, up2 \in SomeFetches : GetWeatherResponse(1, up1, up2)
LiveTimer == SendTimer(1)
LiveGenerate ==
    \E j \in Jobs : \E i \in DOMAIN messages : \E args \in ButtonArgs(messages[i]) :
        /\ j # 1 => Early
        /\ HandleGenerateOutfit(j, i, args)
LiveStarted ==
    \E j \in Jobs : \E resp \in SomeGenerateFetches(j) :
        /\ j # 1 => Early
        /\ GenerateResponse(j, resp)
LiveStatus ==
    \E j \in Jobs : \E how \in SomeStatusCalls :
        /\ j # 1 => Early
        /\ (j # 1 /\ NonTerminal(StatusFetch(how))) => jobs[j].pending < MaxPending
        /\ StatusResponse(j, how)
LiveSleep == \E j \in Jobs : (j # 1 => Early) /\ PollAgain(j)

LiveNext ==
    Tick \/ LiveSend \/ LiveWeather \/ LiveTimer \/ LiveGenerate \/ LiveStarted
        \/ LiveStatus \/ LiveSleep

IntentFetches == {"ok", "nokey", "throw"}
IntentSend == \E u \in IntentUtterances : HandleSend(1, u)
IntentWeather == \E up1, up2 \in IntentFetches : GetWeatherResponse(1, up1, up2)
IntentTimer == SendTimer(1)

IntentNext == Tick \/ IntentSend \/ IntentWeather \/ IntentTimer

IntentSpec == Init /\ [][IntentNext]_vars

\* the run of getWeatherResponse: a single city and a comparison, the weather
\* endpoint answering with live data or an error, or the fetch rejecting
PipeUtterances == {"weather in seattle", "compare Tokyo and Paris"}
PipeFetches == {"ok", "error", "throw"}
PipeLives(query) == {live \in LiveAnswers(query) : live.thrown \/ (live.ok /\ live.parses)}

PipeCall == \E u \in PipeUtterances : CallGetWeatherResponse(u)
PipeWeather == \E side \in {1, 2} : \E up \in PipeFetches : WeatherFetchReturns(side, up)
PipeImage ==
    \E id \in pipe.inFlight : \E live \in PipeLives(QueryOf(pipe.answers, id)) :
        ImageLookupReturns(id, live)

PipeNext == PipeCall \/ PipeWeather \/ PipeImage

PipeSpec == Init /\ [][PipeNext]_vars

\* the style selectors: a single city and a comparison answered with live
\* data, their cards' selectors clicked, their buttons pressed
StyleUtterances == {"weather in seattle", "compare Tokyo and Paris"}

StyleSend == \E u \in StyleUtterances : HandleSend(1, u)
StyleWeather == \E up1, up2 \in {"ok", "throw"} : GetWeatherResponse(1, up1, up2)
StyleTimer == SendTimer(1)
StylePrev == \E card \in Cards(messages) : HandlePrev(card)
StyleNext == \E card \in Cards(messages) : HandleNext(card)
StyleGenerate ==
    \E j \in Jobs : \E i \in DOMAIN messages : \E args \in ButtonArgs(messages[i]) :
        HandleGenerateOutfit(j, i, args)

StyleNextStep == StyleSend \/ StyleWeather \/ StyleTimer \/ StylePrev \/ StyleNext \/ StyleGenerate

StyleSpec == Init /\ [][StyleNextStep]_vars

LiveSpec ==
    /\ Init /\ [][LiveNext]_vars
    /\ WF_vars(\E resp \in SomeGenerateFetches(1) : GenerateResponse(1, resp))
    /\ WF_vars(\E how \in SomeStatusCalls : StatusResponse(1, how))
    /\ WF_vars(PollAgain(1))

(***************************************************************************)
(* ProbeSpec: the program's functions applied to inputs of their own.  The *)
(* initial state holds the function and its input, the one step applies    *)
(* the function and stores what it returns.                                *)
(***************************************************************************)
\* further queries: part of a cache key, one word, no word of the cache,
\* an empty query, upper case, words of a key in another order
OtherQueries ==
    {"blue denim jacket", "jacket", "purple unicorn costume", "", "Sneakers White",
     "sunglasses", "scarf wool", "rain"}

ImageProbes ==
    {[fn |-> "fetchUnsplashImage", in |-> [query |-> ql[1], live |-> ql[2]], out |-> <<>>] :
        ql \in UNION {{query} \X LiveAnswers(query) : query \in ItemQueries \cup OtherQueries}}

\* locations: none, cities with a profile (in lower and in mixed case, alone
\* and inside a longer text), places without one
ProbeLocations == {"", "london", "New York", "moscow", "springfield", "weather tokyo", "Oslo"}

\* answers of the weather provider: other temperatures and conditions
UpstreamDatas(location) ==
    {[UpstreamData(location) EXCEPT !.temp = tc[1], !.main = tc[2], !.description = ToLowerCase(tc[2])] :
        tc \in {-42, 97, 183, 304} \X {"Clouds", "Rain", "Snow"}}

\* weatherData matters to an OK answer only, the draws to the mock data only
WeatherProbes ==
    UNION {{[fn |-> "weather",
             in |-> [location |-> l, up |-> "ok", weatherData |-> d, random |-> NoVariation],
             out |-> <<>>] : d \in UpstreamDatas(l)} : l \in ProbeLocations}
    \cup
    {[fn |-> "weather",
      in |-> [location |-> l, up |-> up, weatherData |-> UpstreamData(l), random |-> random],
      out |-> <<>>] : l \in ProbeLocations, up \in AllUpstreams \ {"ok"}, random \in Randoms}

\* temperatures in tenths of a degree, on and around the bounds of the
\* branches; conditions of the provider, main and description
ProbeTemps ==
    {-200, -1, 0, 1, 99, 100, 101, 179, 180, 199, 200, 201, 249, 250, 251, 299, 300, 301, 320, 420}

ProbeConditions ==
    {[main |-> "Clear", description |-> "clear sky"],
     [main |-> "Clouds", description |-> "broken clouds"],
     [main |-> "Rain", description |-> "light rain"],
     [main |-> "Drizzle", description |-> "light intensity drizzle"],
     [main |-> "Snow", description |-> "light snow"],
     [main |-> "Thunderstorm", description |-> "thunderstorm with rain"],
     [main |-> "Mist", description |-> "mist"]}

\* humidity in percent and wind speed in tenths of a metre per second, on and
\* around the bounds of the two notes
ProbeHumidities == {50, 80, 81, 85}
ProbeSpeeds == {20, 80, 81, 95}

OutfitProbes ==
    {[fn |-> "generateOutfitRecommendation",
      in |-> [name |-> "Oslo", country |-> "NO", temp |-> temp, feels_like |-> temp - 21,
              humidity |-> humidity, main |-> c.main, description |-> c.description,
              speed |-> speed],
      out |-> <<>>] :
        temp \in ProbeTemps, c \in ProbeConditions, humidity \in ProbeHumidities,
        speed \in ProbeSpeeds}

ProbeInputs == ImageProbes \cup WeatherProbes \cup OutfitProbes

ProbeInit ==
    /\ messages = <<WelcomeMessage>>
    /\ isTyping = FALSE
    /\ now = 0
    /\ ticks = 0
    /\ reqs = [r \in AllReqs |-> IdleReq]
    /\ jobs = [j \in Jobs |-> IdleJob]
    /\ probe \in ProbeInputs
    /\ pipe = IdlePipe
    /\ currentIndex = <<>>

ApplyFetchUnsplashImage ==
    /\ probe.fn = "fetchUnsplashImage"
    /\ probe.out = <<>>
    /\ probe' = [probe EXCEPT !.out = <<fetchUnsplashImage(probe.in.query, probe.in.live)>>]
    /\ UNCHANGED <<messages, isTyping, now, ticks, reqs, jobs, pipe, currentIndex>>

ApplyWeatherHandler ==
    /\ probe.fn = "weather"
    /\ probe.out = <<>>
    /\ probe' = [probe EXCEPT !.out = <<WeatherHandler(probe.in.location, probe.in.up,
                                                       probe.in.weatherData, probe.in.random)>>]
    /\ UNCHANGED <<messages, isTyping, now, ticks, reqs, jobs, pipe, currentIndex>>

ApplyGenerateOutfitRecommendation ==
    /\ probe.fn = "generateOutfitRecommendation"
    /\ probe.out = <<>>
    /\ probe' = [probe EXCEPT !.out = <<generateOutfitRecommendation(probe.in)>>]
    /\ UNCHANGED <<messages, isTyping, now, ticks, reqs, jobs, pipe, currentIndex>>

ProbeNext ==
    ApplyFetchUnsplashImage \/ ApplyWeatherHandler \/ ApplyGenerateOutfitRecommendation

ProbeSpec == ProbeInit /\ [][ProbeNext]_vars

(***************************************************************************)
(* Properties of the outfit image job.                                     *)
(***************************************************************************)
Started1 == {j \in Jobs : jobs[j].pc # "idle"}

\* the generatedOutfit record of the transcript entry job j appended
Entry(j) == messages[jobs[j].pos].generatedOutfit[1]

ErrorRecord(cityName, error) ==
    [cityName |-> cityName, imageUrl |-> Undef, isGenerating |-> FALSE,
     error |-> error, taskId |-> Undef]

\* C1: a job sends at most maxAttempts (120) status requests; once 120 polls
\* have all been answered with a non-terminal status the job only waits for
\* its timer or is over, and when it is over its entry carries the timeout
\* error with isGenerating = false.
C1_AtMost120Polls ==
    \A j \in Started1 :
        /\ jobs[j].polls <= maxAttempts
        /\ jobs[j].pending = maxAttempts =>
              /\ jobs[j].polls = maxAttempts
              /\ jobs[j].pc \in {"sleep", "done"}
              /\ jobs[j].pc = "done" =>
                    Entry(j) = ErrorRecord(jobs[j].cityName,
                                           "Generation timeout - please try again")

C1_TimedOut ==
    /\ jobs[1].pc = "done" /\ jobs[1].pending = maxAttempts /\ jobs[1].polls = maxAttempts
    /\ ~Entry(1).isGenerating
    /\ Entry(1).error = "Generation timeout - please try again"

\* C2: when k non-terminal answers were followed by 'success' with an image
\* URL, the job is over after exactly k + 1 status requests (and sends no
\* further one: the count stays k + 1), and its entry is the success record:
\* isGenerating = false, the image URL set, no error.
C2_SuccessAfterKPlusOnePolls ==
    \A j \in Started1 :
        jobs[j].last = "success" =>
            /\ jobs[j].pc = "done"
            /\ jobs[j].polls = jobs[j].pending + 1
            /\ Entry(j) = [cityName |-> jobs[j].cityName,
                           imageUrl |-> "https://generated/outfit.png",
                           isGenerating |-> FALSE, error |-> Undef, taskId |-> Undef]

C2_ThreeGeneratingThenSuccess ==
    /\ jobs[1].last = "success" /\ jobs[1].pending = 3 /\ jobs[1].polls = 4
    /\ ~Entry(1).isGenerating /\ Entry(1).imageUrl # Undef

\* C4: when the start call fails at once (rejected fetch, non-OK answer,
\* unparseable body, or an answer without taskId) the job is over, its entry
\* has isGenerating = false and an error and no image, and it has sent no
\* status request.
StartFailures == {"start: thrown", "start: unparseable", "start: not ok", "start: no taskId"}

C4_StartFailureNeverPolls ==
    \A j \in Started1 :
        jobs[j].last \in StartFailures =>
            /\ jobs[j].pc = "done"
            /\ jobs[j].polls = 0
            /\ ~Entry(j).isGenerating
            /\ Entry(j).error \notin {Undef, ""}
            /\ Entry(j).imageUrl = Undef

C4_MissingTaskId ==
    /\ jobs[1].pc = "done" /\ jobs[1].last = "start: no taskId"
    /\ Entry(1).error = "Server response missing taskId"

\* C5: when a status poll is answered 'create_failed' or 'generation_failed'
\* the job is over and its entry has isGenerating = false, no image, and as
\* error the provider's error message when the answer carried one and
\* 'Generation failed' otherwise.
C5_FailureMessage ==
    \A j \in Started1 :
        jobs[j].last \in {"create_failed", "generation_failed"} =>
            /\ jobs[j].pc = "done"
            /\ jobs[j].polls = jobs[j].pending + 1
            /\ Entry(j) = ErrorRecord(jobs[j].cityName,
                                      IF jobs[j].lastError # Undef
                                      THEN jobs[j].lastError
                                      ELSE "Generation failed")

C5_ProviderMessageShown ==
    /\ jobs[1].pc = "done" /\ jobs[1].last = "create_failed"
    /\ jobs[1].lastError = "prompt rejected"
    /\ Entry(1).error = "prompt rejected"

\* C3: once an entry's generatedOutfit record has isGenerating = false, no
\* step changes that record again.
C3_TerminalRecordNeverChanges ==
    [][\A i \in DOMAIN messages :
          (messages[i].generatedOutfit # None /\ ~messages[i].generatedOutfit[1].isGenerating)
              => messages'[i].generatedOutfit = messages[i].generatedOutfit]_vars

\* C7: a step that changes an entry already in the transcript is a step of
\* the job that appended that entry: a job's updates reach no other entry.
C7_UpdateTouchesOwnEntryOnly ==
    [][\A i \in DOMAIN messages :
          messages'[i] # messages[i]
              => \E j \in Jobs : jobs[j].pos = i /\ jobs'[j] # jobs[j]]_vars

(***************************************************************************)
(* Properties of the transcript.                                           *)
(***************************************************************************)
\* C8: the transcript is append-only: every step keeps every entry at its
\* index, unchanged except for the generatedOutfit field of an entry that
\* has one (a job entry), and never shortens the transcript.
C8_AppendOnly ==
    [][/\ Len(messages') >= Len(messages)
       /\ \A i \in DOMAIN messages :
             /\ messages'[i] = [messages[i] EXCEPT !.generatedOutfit = messages'[i].generatedOutfit]
             /\ messages[i].generatedOutfit = None => messages'[i] = messages[i]]_vars

\* a job's entry was rewritten in place below entries of a later submission
C8_UpdatedBelowLaterEntries ==
    \E j \in Jobs : \E r \in Reqs :
        /\ jobs[j].pc = "done" /\ jobs[j].last = "success"
        /\ ~messages[jobs[j].pos].generatedOutfit[1].isGenerating
        /\ reqs[r].pc = "done" /\ reqs[r].userPos > jobs[j].pos
        /\ Len(reqs[r].answers) = 1

(***************************************************************************)
(* Properties of the conversation controller.                              *)
(***************************************************************************)
Sent == {r \in DOMAIN reqs : reqs[r].pc # "idle"}
Answered == {r \in DOMAIN reqs : reqs[r].pc = "done"}

IsCard(m) ==
    \/ m.comparisonData # None
    \/ m.weatherData # None /\ m.outfitData # None

HasNoResultData(m) ==
    /\ m.comparisonData = None /\ m.weatherData = None /\ m.outfitData = None
    /\ m.generatedOutfit = None

\* C9: a submission appends the user's entry; until its request completes it
\* has appended no assistant entry, and when it completes it has appended
\* exactly one, after the user's entry: a result card without text if every
\* weather fetch gave an OK answer, a text-only entry without result data if
\* not.  The transcript holds no assistant entry besides the welcome and
\* these.
C9_OneAnswerPerRequest ==
    /\ \A r \in Sent :
          /\ messages[reqs[r].userPos].isUser
          /\ messages[reqs[r].userPos].text = reqs[r].userInput
          /\ reqs[r].pc # "done" => reqs[r].answers = <<>>
    /\ \A r \in Answered :
          /\ Len(reqs[r].answers) = 1
          /\ reqs[r].answers[1] > reqs[r].userPos
          /\ LET m == messages[reqs[r].answers[1]] IN
             /\ ~m.isUser
             /\ IF \A k \in DOMAIN reqs[r].fetched : reqs[r].fetched[k]
                THEN IsCard(m) /\ m.text = Undef
                ELSE HasNoResultData(m) /\ m.text \notin {Undef, ""}
    /\ Cardinality({i \in DOMAIN messages : ~messages[i].isUser}) = 1 + Cardinality(Answered)

\* one request answered with a card and another with an error entry
C9_CardAndErrorEntry ==
    \E r1, r2 \in Answered :
        /\ IsCard(messages[reqs[r1].answers[1]])
        /\ reqs[r2].fetched = <<FALSE>>
        /\ HasNoResultData(messages[reqs[r2].answers[1]])

\* C10: in a comparison request a weather fetch that threw or was answered
\* non-OK, for either city, makes the result an error and the appended entry
\* a text entry without comparison data; and every comparison card in the
\* transcript carries the weather and the outfit (its three variations) of
\* both cities.
C10_ComparisonAllOrNothing ==
    /\ \A r \in Sent :
          (IntentOf[reqs[r].userInput].kind = "compare" /\ FALSE \in Range(reqs[r].fetched)) =>
              /\ reqs[r].result.message = None
              /\ reqs[r].result.error \notin {Undef, ""}
              /\ reqs[r].pc = "done" =>
                    /\ messages[reqs[r].answers[1]].comparisonData = None
                    /\ messages[reqs[r].answers[1]].text = reqs[r].result.error
    /\ \A i \in DOMAIN messages :
          messages[i].comparisonData # None =>
              \A side \in {messages[i].comparisonData[1].city1,
                           messages[i].comparisonData[1].city2} :
                  side.weather # None /\ Len(side.outfit.variations) = 3

\* a comparison whose second city alone failed was answered with an error
C10_OneCityFailed ==
    \E r \in Answered :
        /\ IntentOf[reqs[r].userInput].kind = "compare"
        /\ reqs[r].fetched = <<TRUE, FALSE>>
        /\ messages[reqs[r].answers[1]].comparisonData = None

Extracted == {r \in AllReqs : reqs[r].intent # <<>>}

\* C11: every city handed to the weather request is a non-empty string, and
\* an utterance of which nothing remains after the cleanup steps, the final
\* one included, gets the fallback "New York".
C11_CityNeverEmpty ==
    \A r \in Extracted :
        LET intent == reqs[r].intent[1] IN
            /\ intent.city1 # ""
            /\ intent.kind = "compare" => intent.city2 # ""
            /\ (intent.kind = "single" /\ FinalCleanup(Candidate(reqs[r].userInput)) = "")
                   => intent.city1 = DefaultLocation

\* C12: "what should I wear tomorrow", and an utterance that is only a time
\* word, resolve to the single city "New York".
C12_NoLocationGivesFallback ==
    \A r \in Extracted :
        reqs[r].userInput \in {"what should I wear tomorrow", "tomorrow"}
            => /\ reqs[r].intent[1].kind = "single"
               /\ reqs[r].intent[1].city1 = DefaultLocation

\* C13: the first comparison pattern, in listed order, that matches decides
\* and the single-city path is taken only when none matches; "compare Tokyo
\* and New York" gives Tokyo and New York, and "compare X versus Y" is
\* captured by the first pattern.
C13_FirstPatternDecides ==
    \A r \in Extracted :
        LET u == reqs[r].userInput
            intent == reqs[r].intent[1]
            found(k) == ComparisonMatch(u, comparisonPatterns[k].head, comparisonPatterns[k].words).found
        IN /\ intent.kind = "compare" <=> \E k \in 1 .. 3 : found(k)
           /\ intent.kind = "compare"
                 => found(intent.pattern) /\ \A k \in 1 .. (intent.pattern - 1) : ~found(k)
           /\ u = "compare Tokyo and New York"
                 => intent.pattern = 1 /\ intent.city1 = "Tokyo" /\ intent.city2 = "New York"
           /\ u = "compare Rome versus Oslo"
                 => intent.pattern = 1 /\ intent.city1 = "Rome" /\ intent.city2 = "Oslo"
           /\ u = "compare Rome and Oslo vs Lima"
                 => intent.pattern = 1 /\ intent.city1 = "Rome" /\ intent.city2 = "Oslo vs Lima"
           /\ u = "weather in Tokyo vs Paris"
                 => intent.pattern = 2 /\ intent.city1 = "Tokyo" /\ intent.city2 = "Paris"

\* an utterance that the first and the second pattern both match was decided
\* by the first
C13_TwoPatternsMatched ==
    \E r \in Extracted :
        /\ reqs[r].userInput = "compare Rome and Oslo vs Lima"
        /\ {1, 2} \subseteq Matching(reqs[r].userInput)
        /\ reqs[r].intent[1].pattern = 1
        /\ reqs[r].pc = "done"

\* C14: both captured cities get the same cleanup: compare, weather in,
\* weather for, weather, the and ? are removed from each, then it is trimmed.
C14_SameCleanupBothCities ==
    \A r \in Extracted :
        LET u == reqs[r].userInput
            intent == reqs[r].intent[1]
            m == ComparisonMatch(u, comparisonPatterns[intent.pattern].head,
                                 comparisonPatterns[intent.pattern].words)
            cleanup(g) ==
                Trim(RemoveAll(Trim(g),
                        <<"compare", "weather in", "weather for", "weather", "the", "?">>))
        IN intent.kind = "compare"
              => intent.city1 = cleanup(m.g1) /\ intent.city2 = cleanup(m.g2)

(***************************************************************************)
(* Properties of the image lookup.                                         *)
(***************************************************************************)
ImageApplied == probe.fn = "fetchUnsplashImage" /\ probe.out # <<>>

\* the live endpoint answered OK with a URL
LiveGaveUrl(live) ==
    ~live.thrown /\ live.ok /\ live.parses /\ live.imageUrl # Undef /\ live.imageUrl # ""

\* the number of the tokens q of a query that contain, or are contained in,
\* some token of k, the tokens of a key
TokenScore(q, k) ==
    Cardinality({i \in DOMAIN q : \E j \in DOMAIN k : Includes(q[i], k[j]) \/ Includes(k[j], q[i])})

Tokens(s) == Split(ToLowerCase(s))

CacheUrls == {imageCache[i].url : i \in DOMAIN imageCache}

C16_FuzzyMatchThreshold ==
    (ImageApplied /\ ~LiveGaveUrl(probe.in.live) /\ probe.in.query \notin CacheKeys) =>
        LET query == probe.in.query
            url == probe.out[1].url
            q == Tokens(query)
            highest == SetMax({TokenScore(q, CacheKeyWords[i]) : i \in DOMAIN imageCache})
            top == {i \in DOMAIN imageCache : TokenScore(q, CacheKeyWords[i]) = highest}
        IN /\ IF highest >= 2
              THEN \E i \in top : url = imageCache[i].url
              ELSE url = GenericFallback
           /\ query = "blue denim jacket" => url = Cached("blue denim jacket classic")

\* "blue denim jacket" looked up with the live endpoint answering non-OK
C16_BlueDenimJacket ==
    /\ ImageApplied
    /\ probe.in.query = "blue denim jacket"
    /\ ~probe.in.live.thrown /\ ~probe.in.live.ok
    /\ probe.out[1].url = Cached("blue denim jacket classic")
    /\ TokenScore(Tokens("blue denim jacket"), Tokens("blue denim jacket classic")) = 3

(***************************************************************************)
(* Properties of the weather endpoint.                                     *)
(***************************************************************************)
WeatherApplied == probe.fn = "weather" /\ probe.out # <<>>

\* the weather and the outfit synthesized for the probe's location and draws
Synthesized(answer) ==
    LET mock == generateMockWeather(probe.in.location, probe.in.random) IN
        /\ answer.weather = Some(WeatherOf(mock))
        /\ answer.outfit = Some(generateOutfitRecommendation(mock))

\* C17: the endpoint fails only without a location or on a non-OK status of
\* the provider other than 401; given a location, it answers OK with
\* synthesized data and demoMode = true when there is no key, on a 401 and on
\* a failed call of the provider, and with the provider's data and
\* demoMode = false on an OK answer of the provider.
C17_WeatherFailsOnlyOnBadInputOrStatus ==
    WeatherApplied =>
        LET in == probe.in
            answer == probe.out[1]
        IN /\ ~answer.ok => (in.location = "" \/ in.up \in {"error", "errorgarbled"})
           /\ (in.location # "" /\ in.up \in {"nokey", "401", "netfail"})
                 => answer.ok /\ answer.demoMode = Some(TRUE) /\ Synthesized(answer)
           /\ (in.location # "" /\ in.up = "ok")
                 => /\ answer.ok /\ answer.demoMode = Some(FALSE)
                    /\ answer.weather = Some(WeatherOf(in.weatherData))

\* a failed call of the provider answered with the mock data of a listed city
C17_NetworkFailureDemo ==
    /\ WeatherApplied
    /\ probe.in.location = "london" /\ probe.in.up = "netfail"
    /\ probe.out[1].ok /\ probe.out[1].demoMode = Some(TRUE)
    /\ probe.out[1].weather[1].country = "GB"

\* the reason names what happened: the missing key when there is none, and
\* no 401 when the provider did not answer 401
NamesCause(up, demoReason) ==
    /\ demoReason # Undef
    /\ up = "nokey" => Includes(demoReason, "No API key")
    /\ up # "401" => ~Includes(demoReason, "returned 401")

\* C18: given a location, with no key, on a failed call of the provider and
\* on a non-OK status of the provider other than 401, the endpoint answers
\* OK with synthesized data, demoMode = true and a demoReason naming the
\* cause.
C18_UnavailableUpstreamDegrades ==
    (WeatherApplied /\ probe.in.location # ""
                    /\ probe.in.up \in {"nokey", "netfail", "error", "errorgarbled"}) =>
        LET answer == probe.out[1] IN
            /\ answer.ok /\ answer.demoMode = Some(TRUE) /\ Synthesized(answer)
            /\ NamesCause(probe.in.up, answer.demoReason)

(***************************************************************************)
(* Properties of the outfit recommendation.                                *)
(***************************************************************************)
OutfitApplied == probe.fn = "generateOutfitRecommendation" /\ probe.out # <<>>

Styles(variations) == [i \in DOMAIN variations |-> variations[i].style]

\* C19: whatever the condition, the wind and the humidity, the recommendation
\* has exactly 3 variations, and their styles are those of the one band the
\* temperature is in: below 0 extreme cold, from 0 below 10 cold, from 10
\* below 18 mild cool, from 18 below 25 comfortable, from 25 below 30 warm,
\* from 30 hot (the temperature in tenths of a degree).
C19_ThreeVariationsOfTheBand ==
    OutfitApplied =>
        LET temp == probe.in.temp
            styles == Styles(probe.out[1].variations)
        IN /\ Len(probe.out[1].variations) = 3
           /\ temp < 0 => styles = <<"Winter Essential", "Urban Winter", "Classic Cold Weather">>
           /\ (0 <= temp /\ temp < 100) => styles = <<"Casual Cool", "Modern Edge", "Timeless Chic">>
           /\ (100 <= temp /\ temp < 180) => styles = <<"Smart Casual", "Relaxed Comfort", "Active Ready">>
           /\ (180 <= temp /\ temp < 250)
                 => styles = <<"Everyday Casual", "Business Casual", "Streetwear Vibe">>
           /\ (250 <= temp /\ temp < 300) => styles = <<"Summer Breeze", "Beach Ready", "Resort Casual">>
           /\ 300 <= temp => styles = <<"Heat Wave", "Tropical Vibes", "Desert Cool">>

\* exactly 10 degrees in rain and wind: the mild cool styles
C19_OnTheBoundInRain ==
    /\ OutfitApplied
    /\ probe.in.temp = 100 /\ probe.in.main = "Rain" /\ probe.in.speed > 80
    /\ Styles(probe.out[1].variations) = <<"Smart Casual", "Relaxed Comfort", "Active Ready">>

ItemNames(variation) == {variation.items[i].name : i \in DOMAIN variation.items}

\* C20: with "rain" or "drizzle" in the condition every variation is the
\* band's items followed by one Umbrella item, and the note has the rain
\* text; with "snow" in it every variation is the band's items followed by
\* one Snow Gear item, and the note has the snow text; with neither, every
\* variation is the band's items and holds no Umbrella and no Snow Gear.
C20_RainSnowItemsOnEveryVariation ==
    OutfitApplied =>
        LET condition == ToLowerCase(probe.in.main)
            rain == Includes(condition, "rain") \/ Includes(condition, "drizzle")
            snow == Includes(condition, "snow")
            band == outfitVariations(probe.in.temp).variations
            out == probe.out[1]
        IN /\ DOMAIN out.variations = DOMAIN band
           /\ \A i \in DOMAIN band :
                 /\ out.variations[i].style = band[i].style
                 /\ out.variations[i].items =
                        band[i].items
                            \o (IF rain THEN <<[name |-> "Umbrella", query |-> "umbrella rain"]>>
                                ELSE <<>>)
                            \o (IF snow THEN <<[name |-> "Snow Gear", query |-> "snow gear"]>>
                                ELSE <<>>)
                 /\ ~rain => "Umbrella" \notin ItemNames(out.variations[i])
                 /\ ~snow => "Snow Gear" \notin ItemNames(out.variations[i])
           /\ rain => Includes(out.note, "Rain expected!")
           /\ snow => Includes(out.note, "Snowy weather!")

\* drizzle: each of the three variations ends with the umbrella
C20_DrizzleUmbrellas ==
    /\ OutfitApplied
    /\ probe.in.main = "Drizzle"
    /\ \A i \in 1 .. 3 :
          LET items == probe.out[1].variations[i].items IN
              items[Len(items)].name = "Umbrella"

Items(variations) == [i \in DOMAIN variations |-> variations[i].items]

\* C21: the note is the band's note followed by the rain text, the snow
\* text, the wind text and the humidity text, in this order, each present or
\* absent: the wind text is there exactly when the wind speed is above 8 m/s
\* (80 tenths) and the humidity text exactly when the humidity is above 80
\* and the temperature above 20 degrees (200 tenths).  Wind and humidity
\* change no item: the items of every variation are those the temperature
\* and the condition alone give.
C21_WindAndHumidityOnlyAppendNotes ==
    OutfitApplied =>
        LET in == probe.in
            out == probe.out[1]
            condition == ToLowerCase(in.main)
            rain == Includes(condition, "rain") \/ Includes(condition, "drizzle")
            snow == Includes(condition, "snow")
            windy == in.speed > 80
            humid == in.humidity > 80 /\ in.temp > 200
            band == outfitVariations(in.temp)
        IN /\ Includes(out.note, "Windy conditions!") <=> windy
           /\ Includes(out.note, "High humidity") <=> humid
           /\ out.note = band.note
                            \o (IF rain THEN "Rain expected! " ELSE "")
                            \o (IF snow THEN "Snowy weather! " ELSE "")
                            \o (IF windy THEN "Windy conditions! " ELSE "")
                            \o (IF humid THEN "High humidity - choose breathable fabrics! "
                                ELSE "")
           /\ Styles(out.variations) = Styles(band.variations)
           /\ \A i \in DOMAIN out.variations :
                 LET items == out.variations[i].items
                     base == band.variations[i].items
                 IN /\ SubSeq(items, 1, Len(base)) = base
                    /\ Len(items) = Len(base) + (IF rain THEN 1 ELSE 0) + (IF snow THEN 1 ELSE 0)
                    /\ \A k \in (Len(base) + 1) .. Len(items) :
                          items[k] \in {Umbrella, SnowGear}

\* 32 degrees, clear, wind 2 m/s, humidity 85: the hot band's note with the
\* humidity text alone, and the hot band's items
C21_HotAndHumid ==
    /\ OutfitApplied
    /\ probe.in.temp = 320 /\ probe.in.main = "Clear"
    /\ probe.in.speed = 20 /\ probe.in.humidity = 85
    /\ probe.out[1].note = Hot.note \o "High humidity - choose breathable fabrics! "
    /\ Items(probe.out[1].variations) = Items(Hot.variations)
(***************************************************************************)
(* Properties of the run of getWeatherResponse.                            *)
(***************************************************************************)
Comparing == pipe.intent # <<>> /\ pipe.intent[1].kind = "compare"

SidesInFlight == {id[1] : id \in pipe.inFlight}

\* C22: in a comparison the lookups of a city do not wait for the lookups of
\* the other city: while lookups of one city are in flight, the lookups of
\* the other city have been started too.
C22_SidesDoNotWaitForEachOther ==
    (Comparing /\ pipe.pc = "images") =>
        \A side \in {1, 2} :
            SidesInFlight = {side} => LookupsOf(pipe.answers[3 - side], 3 - side) \subseteq pipe.started
(***************************************************************************)
(* Properties of the style selector.                                       *)
(***************************************************************************)
StartedJobs == {j \in Jobs : jobs[j].pc # "idle"}

Names(items) == [k \in DOMAIN items |-> items[k].name]

\* C23 as stated: the start call of a job carries the style name and the
\* item names of the variation its card shows when the button is pressed.
C23_StartCallCarriesShownVariation ==
    [][\A j \in Jobs : \A i \in DOMAIN messages : \A args \in ButtonArgs(messages[i]) :
          HandleGenerateOutfit(j, i, args) =>
              LET shown == args.outfit.variations[IndexOf(<<i, args.side>>) + 1]
              IN /\ jobs'[j].style = shown.style
                 /\ Names(jobs'[j].items) = Names(shown.items)]_vars

\* C23: the start call of a job carries the style name and the items of the
\* first variation of its card's outfit, whatever variation the card shows
\* when the button is pressed.
C23_StartCallCarriesFirstVariation ==
    [][\A j \in Jobs : \A i \in DOMAIN messages : \A args \in ButtonArgs(messages[i]) :
          HandleGenerateOutfit(j, i, args) =>
              /\ jobs'[j].shown = IndexOf(<<i, args.side>>)
              /\ jobs'[j].style = args.outfit.variations[1].style
              /\ jobs'[j].items = args.outfit.variations[1].items]_vars

\* a job started from a card showing its third variation, after a click on
\* "previous", with the style of the first
C23_StartedWhileShowingThird ==
    \E j \in StartedJobs :
        /\ jobs[j].shown = 2
        /\ jobs[j].style = "Everyday Casual"
        /\ Names(jobs[j].items) = <<"Cotton T-Shirt", "Light Cardigan", "Sneakers">>

(***************************************************************************)
(* Further properties of the outfit image job.                             *)
(***************************************************************************)
\* the status calls answered 'generating' (flag 0), 'unknown' (a flag that is
\* none of 0 .. 3) or 'success' without an image URL
WaitingAnswers ==
    {how \in StatusCalls :
        /\ how.call = "ok"
        /\ \/ how.successFlag \notin {1, 2, 3}
           \/ how.successFlag = 1 /\ how.resultImageUrl = Undef}

\* C24: a status poll answered 'generating', 'unknown' or 'success' without
\* an image URL changes no entry of the transcript (the job's entry keeps
\* isGenerating = true), sends nothing and sets the timer; the job's next
\* step is the one poll the timer starts, PollDelay (5000 ms) after the
\* answer or later, whatever the number of polls made (or the timeout of
\* the attempt ceiling); and every status request but the outstanding one
\* has been answered: the requests sent are the non-terminal answers
\* received, plus one while a request is outstanding or was the last.
C24_NonTerminalAnswerWaitsThenPollsOnce ==
    [][\A j \in Jobs :
          /\ \A how \in WaitingAnswers :
                StatusResponse(j, how) =>
                    /\ messages' = messages
                    /\ Entry(j).isGenerating => messages'[jobs'[j].pos].generatedOutfit[1].isGenerating
                    /\ jobs'[j].pc = "sleep"
                    /\ jobs'[j].armedAt = now
                    /\ jobs'[j].polls = jobs[j].polls
                    /\ jobs'[j].pending = jobs[j].pending + 1
          /\ (jobs[j].pc = "sleep" /\ jobs'[j] # jobs[j]) =>
                /\ now' >= jobs[j].armedAt + PollDelay
                /\ now' = Max(now, jobs[j].armedAt + PollDelay)
                /\ \/ jobs'[j].pc = "status" /\ jobs'[j].polls = jobs[j].polls + 1
                   \/ jobs'[j].pc = "done" /\ jobs'[j].polls = jobs[j].polls
                         /\ jobs[j].polls = maxAttempts
          /\ jobs'[j].polls - jobs'[j].pending \in {0, 1}
          /\ jobs'[j].pc = "status" => jobs'[j].polls = jobs'[j].pending + 1
          /\ jobs'[j].pc = "sleep" => jobs'[j].polls = jobs'[j].pending]_vars

\* the third poll is outstanding, 10 seconds or more after the first answer,
\* two answers having been non-terminal, and the entry is still generating
C24_ThirdPollAfterTwoWaits ==
    /\ jobs[1].pc = "status" /\ jobs[1].pending = 2 /\ jobs[1].polls = 3
    /\ now >= 2 * PollDelay
    /\ Entry(1).isGenerating /\ Entry(1).imageUrl = Undef /\ Entry(1).error = Undef
\* the status calls that fail: the fetch rejects, the body does not parse, or
\* the endpoint answers non-OK (no credential, an error of the provider)
FailedCalls == {how \in StatusCalls : how.call \in {"throw", "unparseable", "nokey", "error"}}

\* C25: a status request that fails ends the job in that step, whatever the
\* number of polls made: the job's entry gets isGenerating = false, an error
\* text and no image, no request is sent; and a job that is over takes no
\* further step, so it never polls again.
C25_FailedStatusRequestEndsJob ==
    [][\A j \in Jobs :
          /\ \A how \in FailedCalls :
                StatusResponse(j, how) =>
                    /\ jobs'[j].pc = "done"
                    /\ jobs'[j].polls = jobs[j].polls
                    /\ LET entry == messages'[jobs[j].pos].generatedOutfit[1]
                       IN /\ ~entry.isGenerating
                          /\ entry.error \notin {Undef, ""}
                          /\ entry.imageUrl = Undef
          /\ jobs[j].pc = "done" => jobs'[j] = jobs[j]]_vars

\* the second status request was answered non-OK after one 'generating': the
\* job is over after 2 polls of 120, with the error in its entry
C25_SecondPollNotOk ==
    /\ jobs[1].pc = "done" /\ jobs[1].last = "not ok"
    /\ jobs[1].polls = 2 /\ jobs[1].pending = 1
    /\ ~Entry(1).isGenerating /\ Entry(1).error = "Failed to check status"
\* the generatedOutfit records of the transcript
JobRecords == {messages[i].generatedOutfit[1] : i \in {k \in DOMAIN messages : messages[k].generatedOutfit # None}}

IsSet(v) == v \notin {Undef, ""}

\* C26: every generatedOutfit record of the transcript has one of three
\* shapes: generating (isGenerating, no image, no error), success (not
\* generating, an image, no error) or failed (not generating, an error, no
\* image).
C26_EntryHasOneOfThreeShapes ==
    \A g \in JobRecords :
        \/ g.isGenerating /\ ~IsSet(g.imageUrl) /\ ~IsSet(g.error)
        \/ ~g.isGenerating /\ IsSet(g.imageUrl) /\ ~IsSet(g.error)
        \/ ~g.isGenerating /\ IsSet(g.error) /\ ~IsSet(g.imageUrl)

\* two jobs of one id, so that each writes both entries: the first has
\* failed, the second has its task id and is polling, and both entries are
\* of the failed shape, with the task id
C26_FailedEntryGivenTaskId ==
    /\ jobs[1].id = jobs[2].id
    /\ jobs[1].pc = "done" /\ jobs[2].pc = "status"
    /\ \A j \in {1, 2} :
          /\ ~Entry(j).isGenerating /\ IsSet(Entry(j).error) /\ ~IsSet(Entry(j).imageUrl)
          /\ IsSet(Entry(j).taskId)
(***************************************************************************)
(* Further properties of the transcript.                                   *)
(***************************************************************************)
\* C27: the entries of the transcript have pairwise distinct ids.
C27_IdsPairwiseDistinct ==
    \A i, k \in DOMAIN messages : i # k => messages[i].id # messages[k].id
\* C28: the typing indicator is on exactly while a submitted request has not
\* had its assistant entry appended.
C28_TypingWhileRequestOutstanding ==
    isTyping = (\E r \in Sent : reqs[r].pc # "done")

\* C29: the assistant entries are in the order of their requests: of two
\* answered requests the one submitted first has its assistant entry first.
C29_AnswersInRequestOrder ==
    \A r1, r2 \in Answered :
        reqs[r1].userPos < reqs[r2].userPos =>
            \A a1 \in Range(reqs[r1].answers), a2 \in Range(reqs[r2].answers) : a1 < a2
\* the outfit of a side in the message returned
CardOutfit(side) ==
    LET m == pipe.result.message[1] IN
        IF m.comparisonData # None
        THEN (IF side = 1 THEN m.comparisonData[1].city1 ELSE m.comparisonData[1].city2).outfit
        ELSE m.outfitData[1]

\* the URLs a lookup of the query can resolve to
ResolvedFor(query) ==
    {fetchUnsplashImageOf[query][live].url : live \in LiveAnswers(query)}

\* C30: the message is returned only when no lookup is in flight and every
\* lookup of every variation of every side has resolved; in it each side has
\* the variations of the outfit the weather endpoint returned, in order,
\* each with its style, as many items, the items' names in order, and for
\* each item the URL its own lookup resolved to, which is a URL for that
\* item's query; until then no message is returned.
C30_ImagesJoinedInPlace ==
    /\ pipe.inFlight # {} => pipe.result = NoResult
    /\ pipe.result.message # None =>
          /\ pipe.pc = "done" /\ pipe.inFlight = {}
          /\ \A side \in DOMAIN pipe.answers :
                LET served == pipe.answers[side].outfit[1].variations
                    shown == CardOutfit(side).variations
                IN /\ LookupsOf(pipe.answers[side], side) \subseteq DOMAIN pipe.urls
                   /\ DOMAIN shown = DOMAIN served
                   /\ \A v \in DOMAIN served :
                         /\ shown[v].style = served[v].style
                         /\ DOMAIN shown[v].items = DOMAIN served[v].items
                         /\ \A k \in DOMAIN served[v].items :
                               /\ shown[v].items[k].name = served[v].items[k].name
                               /\ shown[v].items[k].imageUrl = pipe.urls[<<side, v, k>>]
                               /\ shown[v].items[k].imageUrl
                                     \in ResolvedFor(served[v].items[k].query)

\* a comparison card returned after lookups completed out of their mapping
\* order, one of them answered from the cache
C30_JoinedAfterOvertaking ==
    /\ Comparing /\ pipe.pc = "done" /\ pipe.result.message # None
    /\ pipe.overtook /\ pipe.fallbacks > 0
    /\ \E v \in 1 .. 3, k \in 1 .. 3 :
          CardOutfit(2).variations[v].items[k].imageUrl
              # LiveUrl(pipe.answers[2].outfit[1].variations[v].items[k].query)
====
